---- MODULE Spec2Model ----
(***************************************************************************)
(* StartupLink backend: the recommendation scorer                          *)
(* (services/aiRecommendationService.js), the ranking built on it and the  *)
(* create-investment handler with the Startup model's addInvestment.       *)
(*                                                                         *)
(* Conventions                                                             *)
(*  - A JavaScript value that may be null/undefined is a sequence of       *)
(*    length at most one: None is null/undefined, Some(v) is v.            *)
(*  - A sub-score in [0,1] is kept in thousandths (1.0 is 1000); a weight  *)
(*    in hundredths (0.25 is 25); an overall score on the 0..100 scale is  *)
(*    therefore kept in thousandths of a point (100 is 100000).  All the   *)
(*    inputs are integers and the arithmetic is exact; the IEEE rounding   *)
(*    of the JavaScript doubles (at most a few ulps) is not modelled.      *)
(*  - A call either returns or throws: its outcome is a record whose error *)
(*    field is "none" or the name of the exception.                        *)
(***************************************************************************)
EXTENDS Integers, Sequences, FiniteSets, TLC

VARIABLES
    startup,      \* scorer input: the startup snapshot (None is null)
    investor,     \* scorer input: the investor snapshot (None is null)
    out,          \* outcome of the last scorer call
    now,          \* the wall clock, which moves on with every ranking request
    seen,         \* every {aiScore, reasons} computed for the snapshots, with its time
    candidates,   \* Startup collection, in the order a query returns it
    users,        \* User collection, in the order a query returns it
    recs,         \* outcome of the last recommendations call
    dbStartup,    \* the stored Startup document investments are made in
    dbUsers,      \* the stored User documents, by user id
    reqs,         \* the create-investment requests in progress, by request id
    http,         \* a request on its way through the middleware of its route
    otp,          \* the otp field of the stored User document that logs in
    verifs,       \* the verify-otp requests in progress, by request id
    failures,     \* how many verify-otp requests have been answered 401 so far
    state,        \* the reducer state of the mobile AuthProvider
    storage,      \* AsyncStorage: the 'token' and 'user' entries
    tasks,        \* the async functions of the AuthProvider in progress
    documents,    \* DocumentService input: the documents of one user
    forUserType,  \* DocumentService input: the user type
    complete      \* outcome of the last isDocumentationComplete call

scoreVars == <<startup, investor, out, now, seen>>
rankVars == <<candidates, users, recs>>
investVars == <<dbStartup, dbUsers, reqs>>
authVars == <<http, otp, verifs, failures>>
clientVars == <<state, storage, tasks>>
docVars == <<documents, forUserType, complete>>
vars == <<scoreVars, rankVars, investVars, authVars, clientVars, docVars>>

None == <<>>

\* values of the variables that a specification leaves alone
initialState == [user |-> None, token |-> None, isLoading |-> TRUE, error |-> None]
EmptyStorage == [token |-> None, user |-> None]
IdleTask == [pc |-> "idle", token |-> None, user |-> None, path |-> "none"]
IdleTasks ==
    [loadStoredAuth |-> IdleTask, login |-> IdleTask, logout |-> IdleTask,
     updateProfile |-> IdleTask]
NotCalled == [called |-> FALSE, value |-> FALSE]
Some(v) == <<v>>
Val(o) == o[1]

Min(a, b) == IF a < b THEN a ELSE b
Max(a, b) == IF a > b THEN a ELSE b

SeqToSet(s) == {s[i] : i \in DOMAIN s}

\* slice(0, n + 1): one entry too many
SliceInclusive(s, n) ==
    LET end == IF n < 0 THEN Max(Len(s) + n + 1, 0) ELSE Min(n + 1, Len(s))
    IN  SubSeq(s, 1, end)

\* Array.prototype.slice(0, n) for an integer n: a negative n counts from the end
Slice(s, n) ==
    LET end == IF n < 0 THEN Max(Len(s) + n, 0) ELSE Min(n, Len(s))
    IN  SubSeq(s, 1, end)

\* outcomes
Returns(score, reasons) == [error |-> "none", score |-> score, reasons |-> reasons]
Throws(e) == [error |-> e, score |-> 0, reasons |-> <<>>]

(***************************************************************************)
(* aiRecommendationService.js: the six sub-scores                          *)
(***************************************************************************)

\* the six factors weighted alike
weightsUniform ==
    [sector |-> 17, stage |-> 17, location |-> 17,
     fundingRange |-> 17, pastPerformance |-> 16, socialProof |-> 16]

weights ==
    [sector |-> 25, stage |-> 20, location |-> 15,
     fundingRange |-> 20, pastPerformance |-> 15, socialProof |-> 5]

\* investor.investorProfile.investmentHistory.map(inv => inv.startupId?.sector).filter(Boolean)
pastSectors(history) ==
    {Val(history[i].startupId).sector :
        i \in {j \in DOMAIN history : history[j].startupId # None}}

\* a scorer that validates its arguments and raises a dedicated error
calculateSectorScoreValidated(s, inv) ==
    IF inv = None \/ s = None THEN Throws("InvalidInputError")
    ELSE LET preferredSectors ==
                 IF Val(inv).preferredSectors = None THEN {}
                 ELSE Val(Val(inv).preferredSectors)
         IN  IF Val(s).sector \in preferredSectors THEN Returns(1000, <<>>)
             ELSE IF Val(inv).investmentHistory = None THEN Throws("TypeError")
             ELSE IF Val(s).sector \in pastSectors(Val(Val(inv).investmentHistory))
                  THEN Returns(800, <<>>)
             ELSE Returns(300, <<>>)

\* the history match and the no-match values exchanged
calculateSectorScoreSwapped(s, inv) ==
    IF inv = None THEN Throws("TypeError")
    ELSE IF s = None THEN Throws("TypeError")
    ELSE LET preferredSectors ==
                 IF Val(inv).preferredSectors = None THEN {}
                 ELSE Val(Val(inv).preferredSectors)
         IN  IF Val(s).sector \in preferredSectors THEN Returns(1000, <<>>)
             ELSE IF Val(inv).investmentHistory = None THEN Throws("TypeError")
             ELSE IF Val(s).sector \in pastSectors(Val(Val(inv).investmentHistory))
                  THEN Returns(300, <<>>)
             ELSE Returns(800, <<>>)

calculateSectorScore(s, inv) ==
    IF inv = None THEN Throws("TypeError")
    ELSE IF s = None THEN Throws("TypeError")
    ELSE LET preferredSectors ==
                 IF Val(inv).preferredSectors = None THEN {}
                 ELSE Val(Val(inv).preferredSectors)
         IN  IF Val(s).sector \in preferredSectors THEN Returns(1000, <<>>)
             ELSE IF Val(inv).investmentHistory = None THEN Throws("TypeError")
             ELSE IF Val(s).sector \in pastSectors(Val(Val(inv).investmentHistory))
                  THEN Returns(800, <<>>)
             ELSE Returns(300, <<>>)

RiskTolerances == {"conservative", "moderate", "aggressive"}
Stages == {"idea", "prototype", "mvp", "early-revenue", "growth", "expansion"}

stagePreferences ==
    [conservative |->
        [r \in Stages |-> CASE r = "growth" -> 1000 [] r = "expansion" -> 900
                            [] r = "early-revenue" -> 700 [] r = "mvp" -> 400
                            [] r = "prototype" -> 200 [] r = "idea" -> 100],
     moderate |->
        [r \in Stages |-> CASE r = "early-revenue" -> 1000 [] r = "mvp" -> 900
                            [] r = "growth" -> 800 [] r = "prototype" -> 600
                            [] r = "expansion" -> 700 [] r = "idea" -> 300],
     aggressive |->
        [r \in Stages |-> CASE r = "idea" -> 1000 [] r = "prototype" -> 900
                            [] r = "mvp" -> 800 [] r = "early-revenue" -> 600
                            [] r = "growth" -> 400 [] r = "expansion" -> 200]]

calculateStageScore(s, inv) ==
    \* riskTolerance || 'moderate': undefined and the empty string are falsy
    LET riskTolerance ==
            IF Val(inv).riskTolerance \in {None, Some("")} THEN "moderate"
            ELSE Val(Val(inv).riskTolerance)
    \* stagePreferences[riskTolerance] is undefined, and indexing it throws
    IN  IF riskTolerance \notin DOMAIN stagePreferences THEN Throws("TypeError")
        ELSE IF Val(s).stage \in DOMAIN stagePreferences[riskTolerance]
             THEN Returns(stagePreferences[riskTolerance][Val(s).stage], <<>>)
        ELSE Returns(500, <<>>)

globalMarkets == {"United States", "India", "Singapore", "United Kingdom", "Germany"}

calculateLocationScore(s, inv) ==
    IF Val(inv).location = None \/ Val(s).location = None THEN Returns(500, <<>>)
    ELSE IF Val(Val(inv).location).country = Val(Val(s).location).country
         THEN IF Val(Val(inv).location).city = Val(Val(s).location).city
              THEN Returns(1000, <<>>)
              ELSE Returns(800, <<>>)
    ELSE IF Val(Val(s).location).country \in globalMarkets THEN Returns(600, <<>>)
    ELSE Returns(400, <<>>)

\* x || d for a number x: 0 is falsy
OrDefault(x, d) == IF x = 0 THEN d ELSE x

\* the ideal band without its end points
calculateFundingScoreExclusive(s, inv) ==
    LET investorCapacity == OrDefault(Val(inv).investmentCapacity, 0)
        minInvestment == OrDefault(Val(s).funding.minimumInvestment, 100)
    IN  IF minInvestment > investorCapacity THEN Returns(100, <<>>)
        ELSE IF 20 * minInvestment > investorCapacity
                /\ 5 * minInvestment < investorCapacity THEN Returns(1000, <<>>)
        ELSE IF 20 * minInvestment < investorCapacity THEN Returns(700, <<>>)
        ELSE Returns(500, <<>>)

calculateFundingScore(s, inv) ==
    LET investorCapacity == OrDefault(Val(inv).investmentCapacity, 0)
        minInvestment == OrDefault(Val(s).funding.minimumInvestment, 100)
    IN  IF minInvestment > investorCapacity THEN Returns(100, <<>>)
        \* idealMin = capacity * 0.05, idealMax = capacity * 0.20
        ELSE IF 20 * minInvestment >= investorCapacity
                /\ 5 * minInvestment <= investorCapacity THEN Returns(1000, <<>>)
        ELSE IF 20 * minInvestment < investorCapacity THEN Returns(700, <<>>)
        ELSE Returns(500, <<>>)

calculatePerformanceScore(s) ==
    LET founderExp == Val(s).founderExperience
        m == Val(s).metrics
        has == m # None
        score ==
            500
            + (CASE founderExp = Some("serial") -> 300
                 [] founderExp = Some("experienced") -> 200
                 [] founderExp = Some("first-time") -> 100
                 [] OTHER -> 0)
            + (IF has /\ Val(m).teamSize > 5 THEN 100 ELSE 0)
            + (IF has /\ Val(m).teamGrowth > 0 THEN 100 ELSE 0)
            + (IF has /\ Val(m).revenueMonthly > 0 THEN 200 ELSE 0)
            + (IF has /\ Val(m).revenueGrowth > 20 THEN 200 ELSE 0)
            + (IF has /\ Val(m).usersTotal > 1000 THEN 100 ELSE 0)
            + (IF has /\ Val(m).usersGrowth > 10 THEN 100 ELSE 0)
    IN  Returns(Min(score, 1000), <<>>)

\* a social-proof score with a recent-activity term read off the clock
calculateSocialProofScoreRecent(s) ==
    IF Val(s).engagement = None THEN Throws("TypeError")
    ELSE LET engagement == Val(Val(s).engagement)
             score ==
                 Min(engagement.likes * 10, 300)
                 + Min(engagement.views, 300)
                 + Min(engagement.bookmarks * 20, 200)
                 + Min(Val(s).funding.investorCount * 100, 200)
                 + now * 100
         IN  Returns(Min(score, 1000), <<>>)

calculateSocialProofScore(s) ==
    IF Val(s).engagement = None THEN Throws("TypeError")
    ELSE LET engagement == Val(Val(s).engagement)
             score ==
                 Min(engagement.likes * 10, 300)
                 + Min(engagement.views, 300)
                 + Min(engagement.bookmarks * 20, 200)
                 + Min(Val(s).funding.investorCount * 100, 200)
         IN  Returns(Min(score, 1000), <<>>)

\* the upper clamp only
normalizeNoFloor(totalScore) == Min(totalScore, 100000)

\* Math.min(Math.max(totalScore * 100, 0), 100)
normalize(totalScore) == Min(Max(totalScore, 0), 100000)

calculateStartupScore(s, inv) ==
    LET sectorScore == calculateSectorScore(s, inv)
    IN  IF sectorScore.error # "none" THEN sectorScore ELSE
    LET stageScore == calculateStageScore(s, inv)
    IN  IF stageScore.error # "none" THEN stageScore ELSE
    LET locationScore == calculateLocationScore(s, inv)
        fundingScore == calculateFundingScore(s, inv)
        performanceScore == calculatePerformanceScore(s)
        socialScore == calculateSocialProofScore(s)
    IN  IF socialScore.error # "none" THEN socialScore ELSE
    LET totalScore ==
            sectorScore.score * weights.sector
            + stageScore.score * weights.stage
            + locationScore.score * weights.location
            + fundingScore.score * weights.fundingRange
            + performanceScore.score * weights.pastPerformance
            + socialScore.score * weights.socialProof
    IN  Returns(normalize(totalScore), <<>>)

(***************************************************************************)
(* aiRecommendationService.js: the investor match score                    *)
(***************************************************************************)

\* calculateCapacityScore; capacity / (minInvestment * 10) is kept in
\* thousandths, which is exact for the amounts used here
calculateCapacityScore(inv, s) ==
    LET capacity == OrDefault(Val(inv).investmentCapacity, 0)
        minInvestment == OrDefault(Val(s).funding.minimumInvestment, 100)
    IN  IF capacity < minInvestment THEN 0
        ELSE IF capacity >= minInvestment * 10 THEN 1000
        ELSE (capacity * 100) \div minInvestment

riskMatrix ==
    [conservative |->
        [r \in Stages |-> CASE r = "idea" -> 100 [] r = "prototype" -> 300
                            [] r = "mvp" -> 500 [] r = "early-revenue" -> 800
                            [] r = "growth" -> 1000 [] r = "expansion" -> 1000],
     moderate |->
        [r \in Stages |-> CASE r = "idea" -> 300 [] r = "prototype" -> 500
                            [] r = "mvp" -> 700 [] r = "early-revenue" -> 1000
                            [] r = "growth" -> 900 [] r = "expansion" -> 800],
     aggressive |->
        [r \in Stages |-> CASE r = "idea" -> 1000 [] r = "prototype" -> 900
                            [] r = "mvp" -> 800 [] r = "early-revenue" -> 700
                            [] r = "growth" -> 600 [] r = "expansion" -> 500]]

calculateRiskScore(inv, s) ==
    LET riskTolerance ==
            IF Val(inv).riskTolerance = None THEN "moderate"
            ELSE Val(Val(inv).riskTolerance)
    IN  IF riskTolerance \notin DOMAIN riskMatrix THEN Throws("TypeError")
        ELSE IF Val(s).stage \in DOMAIN riskMatrix[riskTolerance]
             THEN Returns(riskMatrix[riskTolerance][Val(s).stage], <<>>)
        ELSE Returns(500, <<>>)

RECURSIVE SumOfAmounts(_)
SumOfAmounts(history) ==
    IF history = <<>> THEN 0
    ELSE Head(history).amount + SumOfAmounts(Tail(history))

\* calculateInvestmentPatternScore: with avg = sum / n and ratio = min / avg,
\* ratio >= a/b is b * min * n >= a * sum for a positive sum; for a sum of 0
\* the ratio is infinite and for a negative one negative: 0.4 either way
calculateInvestmentPatternScore(inv, s) ==
    LET investmentHistory ==
            IF Val(inv).investmentHistory = None THEN <<>>
            ELSE Val(Val(inv).investmentHistory)
        n == Len(investmentHistory)
        sum == SumOfAmounts(investmentHistory)
        startupMinInvestment == OrDefault(Val(s).funding.minimumInvestment, 100)
    IN  IF n = 0 THEN 500
        ELSE IF sum <= 0 \/ startupMinInvestment <= 0 THEN 400
        ELSE IF 2 * startupMinInvestment * n >= sum
                /\ startupMinInvestment * n <= 2 * sum THEN 1000
        ELSE IF 5 * startupMinInvestment * n >= sum
                /\ startupMinInvestment * n <= 5 * sum THEN 700
        ELSE 400

regions ==
    {{"United States", "Canada", "Brazil", "Mexico"},
     {"United Kingdom", "Germany", "France", "Netherlands"},
     {"India", "Singapore", "Japan", "China"},
     {"UAE", "Saudi Arabia", "Egypt", "Israel"}}

checkTimeZoneCompatibility(country1, country2) ==
    \E region \in regions : country1 \in region /\ country2 \in region

calculateGeographicScore(inv, s) ==
    IF Val(inv).location = None \/ Val(s).location = None THEN 500
    ELSE IF Val(Val(inv).location).country = Val(Val(s).location).country
         THEN IF Val(Val(inv).location).city = Val(Val(s).location).city
              THEN 1000 ELSE 800
    ELSE IF checkTimeZoneCompatibility(Val(Val(inv).location).country,
                                       Val(Val(s).location).country)
         THEN 600
    ELSE 400

\* the five factors of calculateInvestorMatchScore, in thousandths
matchFactors(inv, s) ==
    [sectorInterest |->
         IF Val(s).sector \in Val(Val(inv).preferredSectors) THEN 1000 ELSE 300,
     capacityScore |-> calculateCapacityScore(inv, s),
     riskScore |-> calculateRiskScore(inv, s).score,
     patternScore |-> calculateInvestmentPatternScore(inv, s),
     geoScore |-> calculateGeographicScore(inv, s)]

\* the weights written into calculateInvestorMatchScore, in hundredths
matchWeights ==
    [sectorInterest |-> 30, capacityScore |-> 25, riskScore |-> 20,
     patternScore |-> 15, geoScore |-> 10]

calculateInvestorMatchScore(inv, s) ==
    IF inv = None \/ s = None THEN Throws("TypeError")
    ELSE IF Val(inv).preferredSectors = None THEN Throws("TypeError")
    ELSE IF calculateRiskScore(inv, s).error # "none" THEN calculateRiskScore(inv, s)
    ELSE LET f == matchFactors(inv, s)
             totalScore ==
                 f.sectorInterest * matchWeights.sectorInterest
                 + f.capacityScore * matchWeights.capacityScore
                 + f.riskScore * matchWeights.riskScore
                 + f.patternScore * matchWeights.patternScore
                 + f.geoScore * matchWeights.geoScore
         IN  Returns(normalize(totalScore), <<>>)

(***************************************************************************)
(* aiRecommendationService.js: the reason lists                            *)
(***************************************************************************)

\* x.location?.country: undefined when the location is absent
CountryOf(x) ==
    IF Val(x).location = None THEN "undefined" ELSE Val(Val(x).location).country

Push(cond, reason) == IF cond THEN <<reason>> ELSE <<>>

\* generateRecommendationReasons with the score banner pushed first
generateRecommendationReasonsBannerFirst(s, inv, score) ==
    IF inv = None \/ s = None THEN Throws("TypeError")
    ELSE IF Val(s).engagement = None THEN Throws("TypeError")
    ELSE LET preferredSectors ==
                 IF Val(inv).preferredSectors = None THEN {}
                 ELSE Val(Val(inv).preferredSectors)
             reasons ==
                 (IF score > 80000 THEN <<"Top AI match score">>
                  ELSE IF score > 60000 THEN <<"Strong AI match score">>
                  ELSE <<>>)
                 \o Push(Val(s).sector \in preferredSectors,
                         "Matches your preferred " \o Val(s).sector \o " sector")
                 \o Push(Val(inv).riskTolerance = Some("aggressive")
                         /\ Val(s).stage \in {"idea", "prototype"},
                         "Early-stage opportunity matching your risk appetite")
                 \o Push(CountryOf(inv) = CountryOf(s), "Located in your region")
                 \o Push(Val(Val(s).engagement).likes > 50,
                         "High community engagement")
                 \o Push(Val(s).founderExperience = Some("serial"),
                         "Serial entrepreneur with proven track record")
                 \o Push(Val(s).metrics # None
                         /\ Val(Val(s).metrics).revenueMonthly > 0,
                         "Revenue-generating startup")
         IN  Returns(score, Slice(reasons, 3))

generateRecommendationReasons(s, inv, score) ==
    IF inv = None \/ s = None THEN Throws("TypeError")
    ELSE LET preferredSectors ==
                 IF Val(inv).preferredSectors = None THEN {}
                 ELSE Val(Val(inv).preferredSectors)
             sectorAndStage ==
                 Push(Val(s).sector \in preferredSectors,
                      "Matches your preferred " \o Val(s).sector \o " sector")
                 \o Push(Val(inv).riskTolerance = Some("aggressive")
                         /\ Val(s).stage \in {"idea", "prototype"},
                         "Early-stage opportunity matching your risk appetite")
                 \o Push(CountryOf(inv) = CountryOf(s), "Located in your region")
         IN  IF Val(s).engagement = None THEN Throws("TypeError")
             ELSE LET reasons ==
                          sectorAndStage
                          \o Push(Val(Val(s).engagement).likes > 50,
                                  "High community engagement")
                          \o Push(Val(s).founderExperience = Some("serial"),
                                  "Serial entrepreneur with proven track record")
                          \o Push(Val(s).metrics # None
                                  /\ Val(Val(s).metrics).revenueMonthly > 0,
                                  "Revenue-generating startup")
                          \o (IF score > 80000 THEN <<"Top AI match score">>
                              ELSE IF score > 60000 THEN <<"Strong AI match score">>
                              ELSE <<>>)
                  IN  Returns(score, Slice(reasons, 3))

generateInvestorMatchReasons(inv, s, score) ==
    IF inv = None THEN Throws("TypeError")
    ELSE IF Val(inv).preferredSectors = None THEN Throws("TypeError")
    ELSE IF s = None THEN Throws("TypeError")
    ELSE LET reasons ==
                 Push(Val(s).sector \in Val(Val(inv).preferredSectors),
                      "Actively invests in " \o Val(s).sector)
                 \o Push(Val(inv).totalInvested > 10000,
                         "Experienced investor with significant portfolio")
                 \o Push(CountryOf(inv) = CountryOf(s),
                         "Local investor who understands your market")
                 \o Push(Val(inv).communityScore > 50,
                         "Active community member with high engagement")
                 \o Push(score > 80000, "Perfect match for your startup")
         IN  Returns(score, Slice(reasons, 3))

(***************************************************************************)
(* middleware/auth.js: auth, optionalAuth, requireRole, requireKYC         *)
(*                                                                         *)
(* A request goes through the middleware its route lists, in order; a      *)
(* middleware either answers the request or calls next(), and the route    *)
(* handler runs when the last one has called next().  The call of          *)
(* jwt.verify in auth is read as closed after its second argument, as it   *)
(* is in optionalAuth.                                                     *)
(***************************************************************************)

\* the stored users, by id: the fields the middleware reads
StoredAccounts ==
    [u1 |-> [userType |-> "investor", status |-> "active", kycStatus |-> "verified"],
     u2 |-> [userType |-> "both", status |-> "active", kycStatus |-> "verified"],
     u3 |-> [userType |-> "entrepreneur", status |-> "active", kycStatus |-> "verified"],
     u4 |-> [userType |-> "investor", status |-> "active", kycStatus |-> "pending"],
     u5 |-> [userType |-> "investor", status |-> "suspended", kycStatus |-> "verified"]]

\* a token is a string that does not verify, a signed token that has expired,
\* or a signed token with its payload; "ghost" is the id of a deleted user
Tokens ==
    {[kind |-> "garbage", userId |-> None],
     [kind |-> "expired", userId |-> Some("u1")],
     [kind |-> "valid", userId |-> None]}
    \cup {[kind |-> "valid", userId |-> Some(u)] : u \in DOMAIN StoredAccounts \cup {"ghost"}}

\* the Authorization header: absent, "Bearer " and a token, "Bearer " and
\* nothing, or a token with no scheme
Headers ==
    {None, Some([scheme |-> "Bearer", token |-> None])}
    \cup {Some([scheme |-> s, token |-> Some(tok)]) : s \in {"Bearer", "none"}, tok \in Tokens}

\* req.header("Authorization")?.replace("Bearer ", ""); the empty string is falsy
TokenOf(header) == IF header = None THEN None ELSE Val(header).token

User_findById(userId) ==
    IF userId # None /\ Val(userId) \in DOMAIN StoredAccounts
    THEN Some(StoredAccounts[Val(userId)])
    ELSE None

Answer(code, message) ==
    [next |-> FALSE, response |-> code, message |-> message,
     user |-> None, userProfile |-> None]
CallNext(user, userProfile) ==
    [next |-> TRUE, response |-> 0, message |-> "", user |-> user, userProfile |-> userProfile]

\* auth without the check of the account status
authAnyStatus(header) ==
    LET token == TokenOf(header)
    IN  IF token = None THEN Answer(401, "Access denied. No token provided.")
        ELSE IF Val(token).kind = "garbage" THEN Answer(401, "Token is not valid.")
        ELSE IF Val(token).kind = "expired" THEN Answer(401, "Token has expired.")
        ELSE LET user == User_findById(Val(token).userId)
             IN  IF user = None THEN Answer(401, "Token is not valid. User not found.")
                 ELSE CallNext(Some([userId |-> Val(token).userId]), user)

auth(header) ==
    LET token == TokenOf(header)
    IN  IF token = None THEN Answer(401, "Access denied. No token provided.")
        \* jwt.verify throws JsonWebTokenError or TokenExpiredError
        ELSE IF Val(token).kind = "garbage" THEN Answer(401, "Token is not valid.")
        ELSE IF Val(token).kind = "expired" THEN Answer(401, "Token has expired.")
        ELSE LET user == User_findById(Val(token).userId)
             IN  IF user = None THEN Answer(401, "Token is not valid. User not found.")
                 ELSE IF Val(user).status # "active"
                      THEN Answer(401, "Account is suspended or deactivated.")
                 ELSE CallNext(Some([userId |-> Val(token).userId]), user)

optionalAuth(header) ==
    LET token == TokenOf(header)
    IN  IF token = None \/ Val(token).kind # "valid" THEN CallNext(None, None)
        ELSE LET user == User_findById(Val(token).userId)
             IN  IF user # None /\ Val(user).status = "active"
                 THEN CallNext(Some([userId |-> Val(token).userId]), user)
                 ELSE CallNext(None, None)

\* requireRole without the pass for users of type 'both'
requireRoleListedOnly(roles, user, userProfile) ==
    IF userProfile = None THEN Answer(401, "Authentication required.")
    ELSE IF Val(userProfile).userType \notin roles
         THEN Answer(403, "Access denied. Required role")
    ELSE CallNext(user, userProfile)

requireRole(roles, user, userProfile) ==
    IF userProfile = None THEN Answer(401, "Authentication required.")
    ELSE IF Val(userProfile).userType = "both" THEN CallNext(user, userProfile)
    ELSE IF Val(userProfile).userType \notin roles
         THEN Answer(403, "Access denied. Required role")
    ELSE CallNext(user, userProfile)

requireKYC(user, userProfile) ==
    IF userProfile = None THEN Answer(401, "Authentication required.")
    ELSE IF Val(userProfile).kycStatus # "verified"
         THEN Answer(403, "KYC verification required to access this feature.")
    ELSE CallNext(user, userProfile)

(***************************************************************************)
(* routes/investments.js POST / with models/Startup.js addInvestment       *)
(*                                                                         *)
(* The handler runs up to each await; what lies between two database       *)
(* operations touches the request's own copies only, so one action is one  *)
(* database operation with the request-local code around it.  A mongoose   *)
(* save() writes the paths changed on the local copy: $set for a changed   *)
(* scalar, $push for an element appended to an array.  The middleware of   *)
(* the route (auth, requireRole(['investor']), requireKYC) reads users     *)
(* only and runs before the handler.                                       *)
(***************************************************************************)

MaxRequests == 2

Requests == 1..MaxRequests
Investors == {"u1", "u2"}
Amounts == {50, 100, 400, 700, 1000}

StoredStartup ==
    [name |-> "Acme", founder |-> "u3",
     status |-> "active", moderationStatus |-> "approved",
     funding |-> [targetAmount |-> 1000, currentAmount |-> 0,
                  minimumInvestment |-> 100, maximumInvestment |-> None,
                  investorCount |-> 0],
     investments |-> <<>>,
     likedBy |-> <<>>, bookmarkedBy |-> <<>>,
     engagement |-> [likes |-> 0, views |-> 0, bookmarks |-> 0]]

\* the header a client sends with the token of a user
Bearer(user) ==
    Some([scheme |-> "Bearer", token |-> Some([kind |-> "valid", userId |-> Some(user)])])

\* a request as it arrives: user is req.user.userId, set by auth
InvestRequest(header, startupId, amount) ==
    [pc |-> "auth", header |-> header, startupId |-> startupId, amount |-> amount,
     user |-> "", startup |-> None, userDoc |-> None, response |-> 0]

NewRequest(user, amount) == InvestRequest(Bearer(user), "s1", amount)

\* the stored startup, with another status or other limits
StartupVariants ==
    {[StoredStartup EXCEPT !.status = st, !.funding.minimumInvestment = mn,
                           !.funding.maximumInvestment = mx] :
        st \in {"active", "paused"}, mn \in {100, 400},
        mx \in {None, Some(0), Some(400)}}

\* one request of any kind
RequestVariants ==
    {InvestRequest(h, id, a) :
        h \in {None, Some([scheme |-> "Bearer", token |-> Some([kind |-> "garbage", userId |-> None])])}
              \cup {Bearer(u) : u \in DOMAIN StoredAccounts \cup {"ghost"}},
        id \in {"s1", "missing"}, a \in Amounts}

StoredUsers ==
    [u \in DOMAIN StoredAccounts |-> [totalInvested |-> 0, investmentHistory |-> <<>>]]

NoRequests == [r \in Requests |-> NewRequest("u1", 100)]

\* the auth state of the specifications that are not about it
MaxVerifies == 4
Verifies == 1..MaxVerifies
IdleHttp ==
    [chain |-> <<>>, header |-> None, at |-> 1, response |-> 0, message |-> "",
     by |-> "", user |-> None, userProfile |-> None, handlerRan |-> FALSE]
NoOtp == [code |-> None, expiresAt |-> 0, attempts |-> 0]
IdleVerify ==
    [pc |-> "idle", code |-> "", doc |-> None, ok |-> FALSE, dirty |-> FALSE,
     at |-> 0, failedBefore |-> 0, response |-> 0]
NoVerifs == [r \in Verifies |-> IdleVerify]

Idle == [op |-> "none", error |-> "none", score |-> 0, reasons |-> <<>>]
IdleRecs == [op |-> "none", error |-> "none", limit |-> 0, list |-> <<>>]

InitInvest ==
    /\ \/ /\ dbStartup = StoredStartup
          /\ reqs \in [Requests -> {NewRequest(u, a) : u \in Investors, a \in Amounts}]
       \/ /\ dbStartup \in StartupVariants
          /\ reqs \in {[r \in Requests |-> IF r = 1 THEN q ELSE NewRequest("u2", 400)] :
                          q \in RequestVariants}
    /\ dbUsers = StoredUsers
    /\ http = IdleHttp
    /\ otp = NoOtp
    /\ verifs = NoVerifs
    /\ failures = 0
    /\ startup = None
    /\ investor = None
    /\ out = Idle
    /\ now = 0
    /\ seen = {}
    /\ candidates = <<>>
    /\ users = <<>>
    /\ recs = IdleRecs
    /\ state = initialState
    /\ storage = EmptyStorage
    /\ tasks = IdleTasks
    /\ documents = <<>>
    /\ forUserType = "investor"
    /\ complete = NotCalled

Respond(r, code) == reqs' = [reqs EXCEPT ![r].pc = "done", ![r].response = code]

\* investments.js without requireKYC in the list of the route
MiddlewareNoKYC(header) ==
    LET a == auth(header)
    IN  IF ~a.next THEN a ELSE requireRole({"investor"}, a.user, a.userProfile)

\* auth, requireRole(['investor']), requireKYC: the first that answers ends
\* the request
RouteMiddleware(header) ==
    LET a == auth(header)
    IN  IF ~a.next THEN a
        ELSE LET b == requireRole({"investor"}, a.user, a.userProfile)
             IN  IF ~b.next THEN b
                 ELSE requireKYC(b.user, b.userProfile)

Authorize(r) ==
    /\ reqs[r].pc = "auth"
    /\ LET m == RouteMiddleware(reqs[r].header)
       IN  IF ~m.next
           THEN Respond(r, m.response)
           ELSE reqs' = [reqs EXCEPT ![r].pc = "start",
                                     ![r].user = Val(Val(m.user).userId)]
    /\ UNCHANGED <<dbStartup, dbUsers>>

\* body('amount').isFloat({min: 100}) and validationResult
Validate(r) ==
    /\ reqs[r].pc = "start"
    /\ IF reqs[r].amount < 100
       THEN Respond(r, 400)
       ELSE reqs' = [reqs EXCEPT ![r].pc = "findStartup"]
    /\ UNCHANGED <<dbStartup, dbUsers>>

\* const startup = await Startup.findById(startupId)
FindStartup(r) ==
    /\ reqs[r].pc = "findStartup"
    /\ IF reqs[r].startupId # "s1" \/ dbStartup.status # "active"
       THEN Respond(r, 404)
       ELSE reqs' = [reqs EXCEPT ![r].pc = "findUser", ![r].startup = Some(dbStartup)]
    /\ UNCHANGED <<dbStartup, dbUsers>>

\* startupSchema.pre('save')
preSave(doc) ==
    IF doc.funding.currentAmount >= doc.funding.targetAmount /\ doc.status = "active"
    THEN [doc EXCEPT !.status = "funded"]
    ELSE doc

\* addInvestment, up to its save(): the changes to the local copy
addInvestment(doc, investorId, amount) ==
    preSave([doc EXCEPT
        !.investments = Append(@, [investor |-> investorId, amount |-> amount]),
        !.funding.currentAmount = @ + amount,
        !.funding.investorCount = @ + 1])

\* const user = await User.findById(...), the limit checks, and the local
\* part of startup.addInvestment(...)
FindUser(r) ==
    /\ reqs[r].pc = "findUser"
    /\ LET s == Val(reqs[r].startup)
           amount == reqs[r].amount
       IN  IF amount < s.funding.minimumInvestment THEN Respond(r, 400)
           \* startup.funding.maximumInvestment && ...: 0 is falsy
           ELSE IF s.funding.maximumInvestment # None
                   /\ Val(s.funding.maximumInvestment) # 0
                   /\ amount > Val(s.funding.maximumInvestment) THEN Respond(r, 400)
           ELSE IF s.funding.currentAmount + amount > s.funding.targetAmount
                THEN Respond(r, 400)
           ELSE reqs' = [reqs EXCEPT
                    ![r].pc = "saveStartup",
                    ![r].userDoc = Some(dbUsers[reqs[r].user]),
                    ![r].startup = Some(addInvestment(s, reqs[r].user, amount))]
    /\ UNCHANGED <<dbStartup, dbUsers>>

\* the write of startup.save(), then the changes to the local user copy
SaveStartup(r) ==
    /\ reqs[r].pc = "saveStartup"
    /\ LET s == Val(reqs[r].startup)
           u == Val(reqs[r].userDoc)
       IN  /\ dbStartup' = [dbStartup EXCEPT
                  !.investments = Append(@, s.investments[Len(s.investments)]),
                  !.funding.currentAmount = s.funding.currentAmount,
                  !.funding.investorCount = s.funding.investorCount,
                  !.status = IF s.status = "funded" THEN "funded" ELSE @]
           /\ reqs' = [reqs EXCEPT
                  ![r].pc = "saveUser",
                  ![r].userDoc = Some([u EXCEPT
                      !.totalInvested = @ + reqs[r].amount,
                      !.investmentHistory = Append(@, [amount |-> reqs[r].amount])])]
    /\ UNCHANGED dbUsers

\* the write of user.save(), then res.json({success: true, ...})
SaveUser(r) ==
    /\ reqs[r].pc = "saveUser"
    /\ LET u == Val(reqs[r].userDoc)
       IN  dbUsers' = [dbUsers EXCEPT
               ![reqs[r].user].totalInvested = u.totalInvested,
               ![reqs[r].user].investmentHistory =
                   Append(@, u.investmentHistory[Len(u.investmentHistory)])]
    /\ Respond(r, 200)
    /\ UNCHANGED dbStartup

NextInvest ==
    \/ \E r \in Requests : Authorize(r) /\ UNCHANGED <<scoreVars, rankVars, authVars, clientVars, docVars>>
    \/ \E r \in Requests : Validate(r) /\ UNCHANGED <<scoreVars, rankVars, authVars, clientVars, docVars>>
    \/ \E r \in Requests : FindStartup(r) /\ UNCHANGED <<scoreVars, rankVars, authVars, clientVars, docVars>>
    \/ \E r \in Requests : FindUser(r) /\ UNCHANGED <<scoreVars, rankVars, authVars, clientVars, docVars>>
    \/ \E r \in Requests : SaveStartup(r) /\ UNCHANGED <<scoreVars, rankVars, authVars, clientVars, docVars>>
    \/ \E r \in Requests : SaveUser(r) /\ UNCHANGED <<scoreVars, rankVars, authVars, clientVars, docVars>>

Succeeded(r) == reqs[r].pc = "done" /\ reqs[r].response = 200

RECURSIVE SumAmounts(_)
SumAmounts(rs) ==
    IF rs = {} THEN 0
    ELSE LET r == CHOOSE x \in rs : TRUE
         IN  reqs[r].amount + SumAmounts(rs \ {r})

\* C2: when every create-investment request has succeeded, the stored
\* currentAmount has grown by the sum of the amounts and the stored
\* investorCount by the number of requests: no update is lost.
C2_NoLostUpdate ==
    (\A r \in Requests : Succeeded(r))
        => /\ dbStartup.funding.currentAmount =
                  StoredStartup.funding.currentAmount + SumAmounts(Requests)
           /\ dbStartup.funding.investorCount =
                  StoredStartup.funding.investorCount + MaxRequests

RECURSIVE SumInvested(_)
SumInvested(investments) ==
    IF investments = <<>> THEN 0
    ELSE investments[1].amount + SumInvested(Tail(investments))

\* C23: in every state reachable by create-investment requests, overlapping
\* ones included, the amounts of the investments recorded on the startup sum
\* to at most funding.targetAmount and to funding.currentAmount, and
\* funding.investorCount is the number of recorded investments.
C23_FundingConsistent ==
    /\ SumInvested(dbStartup.investments) <= dbStartup.funding.targetAmount
    /\ SumInvested(dbStartup.investments) = dbStartup.funding.currentAmount
    /\ dbStartup.funding.investorCount = Len(dbStartup.investments)

\* the same while no more than one request has read the startup
FundingConsistentOneAtATime ==
    Cardinality({r \in Requests : reqs[r].startup # None}) <= 1
        => /\ SumInvested(dbStartup.investments) <= dbStartup.funding.targetAmount
           /\ SumInvested(dbStartup.investments) = dbStartup.funding.currentAmount
           /\ dbStartup.funding.investorCount = Len(dbStartup.investments)

\* C24: the save of an accepted investment that brings funding.currentAmount
\* up to funding.targetAmount sets the status from 'active' to 'funded'; from
\* then on every create-investment request is rejected and changes nothing;
\* and no save sets a startup to 'funded' with currentAmount below
\* targetAmount.
C24_FundedClosesStartup ==
    [][/\ (dbStartup.status = "active"
           /\ dbStartup.funding.currentAmount < dbStartup.funding.targetAmount
           /\ dbStartup'.funding.currentAmount >= dbStartup'.funding.targetAmount)
              => dbStartup'.status = "funded"
       \* the request whose save funded the startup still saves its user
       /\ dbStartup.status = "funded"
              => /\ dbStartup' = dbStartup
                 /\ \A r \in Requests :
                        reqs'[r].pc = "saveUser" => reqs[r].pc = "saveUser"
       /\ (dbStartup.status # "funded" /\ dbStartup'.status = "funded")
              => dbStartup'.funding.currentAmount >= dbStartup'.funding.targetAmount]_vars

\* the same of the requests that read the startup after it was funded: they
\* are answered 404 and write nothing
FundedRejectsLaterReads ==
    [][/\ (dbStartup.status = "active"
           /\ dbStartup.funding.currentAmount < dbStartup.funding.targetAmount
           /\ dbStartup'.funding.currentAmount >= dbStartup'.funding.targetAmount)
              => dbStartup'.status = "funded"
       /\ \A r \in Requests :
              (dbStartup.status = "funded" /\ reqs[r].pc = "findStartup"
                  /\ reqs'[r].pc # "findStartup")
                  => /\ reqs'[r].pc = "done"
                     /\ reqs'[r].response = 404
                     /\ UNCHANGED <<dbStartup, dbUsers>>
       /\ (dbStartup.status # "funded" /\ dbStartup'.status = "funded")
              => dbStartup'.funding.currentAmount >= dbStartup'.funding.targetAmount]_vars

\* a request was answered 404 by a startup that an investment had funded
FundedRejectedWitness ==
    /\ dbStartup.status = "funded"
    /\ Succeeded(1)
    /\ reqs[2].pc = "done"
    /\ reqs[2].response = 404
    /\ Len(dbStartup.investments) = 1

\* the investment of request r is in the stored startup document
Recorded(r) == reqs[r].pc = "saveUser" \/ Succeeded(r)
Rejected(r) == reqs[r].pc = "done" /\ reqs[r].response # 200

\* the stored user the token of request r names, if it names one
Requester(r) ==
    LET token == TokenOf(reqs[r].header)
    IN  IF token # None /\ Val(token).kind = "valid"
        THEN User_findById(Val(token).userId)
        ELSE None

\* what is required of a recorded investment, apart from the maximum.  The
\* limits of the startup are not written by any request, and its status goes
\* from 'active' to 'funded' only, with an investment: a stored status of
\* 'funded' says that the startup was active when the first request read it.
GuardedButMaximum(r) ==
    /\ Requester(r) # None
    /\ Val(Requester(r)).status = "active"
    /\ Val(Requester(r)).userType \in {"investor", "both"}
    /\ Val(Requester(r)).kycStatus = "verified"
    /\ reqs[r].startupId = "s1"
    /\ dbStartup.status \in {"active", "funded"}
    /\ reqs[r].amount >= 100
    /\ reqs[r].amount >= dbStartup.funding.minimumInvestment

\* C18: an investment is recorded only when the requester is authenticated,
\* has user type investor or both and kycStatus 'verified', the startup
\* exists with status 'active', and the amount is at least 100, at least the
\* minimumInvestment of the startup and at most its maximumInvestment when
\* one is set; a rejected request has written neither document.
C18_InvestmentGuard ==
    \A r \in Requests :
        /\ Recorded(r) =>
               /\ GuardedButMaximum(r)
               /\ dbStartup.funding.maximumInvestment # None
                      => reqs[r].amount <= Val(dbStartup.funding.maximumInvestment)
        /\ Rejected(r) => reqs[r].userDoc = None

\* the same with a maximumInvestment of 0 read as no maximum
InvestmentGuardNonZeroMaximum ==
    \A r \in Requests :
        /\ Recorded(r) =>
               /\ GuardedButMaximum(r)
               /\ (dbStartup.funding.maximumInvestment # None
                      /\ Val(dbStartup.funding.maximumInvestment) # 0)
                      => reqs[r].amount <= Val(dbStartup.funding.maximumInvestment)
        /\ Rejected(r) => reqs[r].userDoc = None

\* the step that ends a request with a rejection writes nothing, and a
\* document is written only by a request that is past every check
RejectedLeavesDocuments ==
    [][/\ \A r \in Requests :
             (reqs[r].pc # "done" /\ reqs'[r].pc = "done" /\ reqs'[r].response # 200)
                 => UNCHANGED <<dbStartup, dbUsers>>
       /\ dbStartup' # dbStartup => \E r \in Requests : reqs[r].pc = "saveStartup"
       /\ dbUsers' # dbUsers => \E r \in Requests : reqs[r].pc = "saveUser"]_vars

\* a request was rejected by each of the checks, and one was recorded on a
\* startup with a maximum
InvestmentRecordedWitness ==
    /\ Recorded(1)
    /\ dbStartup.funding.maximumInvestment = Some(400)
    /\ dbStartup.funding.minimumInvestment = 400
    /\ reqs[1].amount = 400

KycRejectedWitness ==
    /\ Rejected(1)
    /\ reqs[1].response = 403
    /\ Val(Requester(1)).kycStatus = "pending"
    /\ Succeeded(2)


(***************************************************************************)
(* Snapshots the scorer is applied to                                      *)
(***************************************************************************)

MaxDiff == 2
MaxClock == 1

Location(city, country) == Some([city |-> city, country |-> country])

Metrics(teamSize, teamGrowth, revenueMonthly, revenueGrowth, usersTotal, usersGrowth) ==
    Some([teamSize |-> teamSize, teamGrowth |-> teamGrowth,
          revenueMonthly |-> revenueMonthly, revenueGrowth |-> revenueGrowth,
          usersTotal |-> usersTotal, usersGrowth |-> usersGrowth])

Engagement(likes, views, bookmarks) ==
    Some([likes |-> likes, views |-> views, bookmarks |-> bookmarks])

\* the startup of the worked example: AI, idea stage, minimum investment 500
BaseStartup ==
    [id |-> 1, status |-> "active", moderationStatus |-> "approved",
     sector |-> "AI", stage |-> "idea",
     location |-> Location("Austin", "United States"),
     funding |-> [minimumInvestment |-> 500, investorCount |-> 0, currentAmount |-> 0,
                  targetAmount |-> 1000],
     aiScore |-> None,
     founderExperience |-> Some("first-time"),
     metrics |-> Metrics(0, 0, 0, 0, 0, 0),
     engagement |-> Engagement(0, 0, 0)]

AllStartups ==
    [id : {1}, status : {"active"}, moderationStatus : {"approved"},
     sector : {"AI", "Health"},
     stage : {"idea", "early-revenue", "growth"},
     location : {None, Location("Austin", "United States"),
                 Location("Boston", "United States"),
                 Location("Berlin", "Germany"), Location("Paris", "France")},
     funding : [minimumInvestment : {0, 500, 2000, 2500, 20000},
                investorCount : {0, 3}, currentAmount : {0}, targetAmount : {1000}],
     aiScore : {None},
     founderExperience : {None, Some("serial"), Some("first-time")},
     metrics : {None, Metrics(0, 0, 0, 0, 0, 0), Metrics(6, 1, 1, 21, 1001, 11)},
     engagement : {None, Engagement(0, 0, 0), Engagement(60, 400, 10),
                   Engagement(-2000, 0, 0)}]

Bit(b) == IF b THEN 1 ELSE 0

StartupDiff(a, b) ==
    Bit(a.sector # b.sector) + Bit(a.stage # b.stage)
    + Bit(a.location # b.location)
    + Bit(a.funding.minimumInvestment # b.funding.minimumInvestment)
    + Bit(a.funding.investorCount # b.funding.investorCount)
    + Bit(a.founderExperience # b.founderExperience)
    + Bit(a.metrics # b.metrics) + Bit(a.engagement # b.engagement)

\* the startups that differ from the base one in k fields; null counts as one
StartupInputs(k) ==
    {Some(s) : s \in {x \in AllStartups : StartupDiff(x, BaseStartup) = k}}
    \cup (IF k = 1 THEN {None} ELSE {})

History(sector) == <<[startupId |-> Some([sector |-> sector]), amount |-> 1000]>>

\* the investor of the worked example: aggressive, prefers AI, capacity 10000
BaseInvestor ==
    [riskTolerance |-> Some("aggressive"),
     preferredSectors |-> Some({"AI"}),
     investmentCapacity |-> 10000,
     investmentHistory |-> Some(<<>>),
     location |-> Location("Austin", "United States"),
     totalInvested |-> 0,
     communityScore |-> 0]

AllInvestors ==
    [riskTolerance : {None} \cup {Some(r) : r \in RiskTolerances},
     preferredSectors : {None, Some({}), Some({"AI"})},
     investmentCapacity : {0, 400, 10000, 100000},
     investmentHistory : {None, Some(<<>>), Some(History("Health")), Some(History("AI")),
                          Some(<<[startupId |-> None, amount |-> 1000]>>)},
     location : {None, Location("Austin", "United States")},
     totalInvested : {0, 20000},
     communityScore : {0, 60}]

InvestorDiff(a, b) ==
    Bit(a.riskTolerance # b.riskTolerance)
    + Bit(a.preferredSectors # b.preferredSectors)
    + Bit(a.investmentCapacity # b.investmentCapacity)
    + Bit(a.investmentHistory # b.investmentHistory)
    + Bit(a.location # b.location)
    + Bit(a.totalInvested # b.totalInvested)
    + Bit(a.communityScore # b.communityScore)

\* the investors that differ from the base one in at most k fields
InvestorInputs(k) ==
    {Some(i) : i \in {x \in AllInvestors : InvestorDiff(x, BaseInvestor) <= k}}
    \cup (IF k >= 1 THEN {None} ELSE {})

ScoreInputs == {0, 80001}

(***************************************************************************)
(* The scorer as a state machine: one action per public operation          *)
(***************************************************************************)

Outcome(op, r) == [op |-> op, error |-> r.error, score |-> r.score, reasons |-> r.reasons]

\* aiRecommendationService.js:32-39, the per-startup callback of the ranking
scoreOne(s, inv) ==
    LET score == calculateStartupScore(s, inv)
    IN  IF score.error # "none" THEN score
        ELSE generateRecommendationReasons(s, inv, score.score)

InitScore ==
    /\ \E k \in 0..MaxDiff :
           /\ startup \in StartupInputs(k)
           /\ investor \in InvestorInputs(MaxDiff - k)
    /\ out = Idle
    /\ now = 0
    /\ seen = {}
    /\ candidates = <<>>
    /\ users = <<>>
    /\ recs = IdleRecs
    /\ dbStartup = StoredStartup
    /\ dbUsers = StoredUsers
    /\ reqs = NoRequests
    /\ http = IdleHttp
    /\ otp = NoOtp
    /\ verifs = NoVerifs
    /\ failures = 0
    /\ state = initialState
    /\ storage = EmptyStorage
    /\ tasks = IdleTasks
    /\ documents = <<>>
    /\ forUserType = "investor"
    /\ complete = NotCalled

CalculateStartupScore ==
    /\ out' = Outcome("calculateStartupScore", calculateStartupScore(startup, investor))
    /\ UNCHANGED <<startup, investor, now, seen, rankVars, investVars, authVars, clientVars, docVars>>

GenerateRecommendationReasons ==
    \E score \in ScoreInputs :
        /\ out' = Outcome("generateRecommendationReasons",
                          generateRecommendationReasons(startup, investor, score))
        /\ UNCHANGED <<startup, investor, now, seen, rankVars, investVars, authVars, clientVars, docVars>>

GenerateInvestorMatchReasons ==
    \E score \in ScoreInputs :
        /\ out' = Outcome("generateInvestorMatchReasons",
                          generateInvestorMatchReasons(investor, startup, score))
        /\ UNCHANGED <<startup, investor, now, seen, rankVars, investVars, authVars, clientVars, docVars>>

ScoreOne ==
    /\ out' = Outcome("scoreOne", scoreOne(startup, investor))
    /\ seen' = seen \cup {[at |-> now, result |-> scoreOne(startup, investor)]}
    /\ now' = IF now < MaxClock THEN now + 1 ELSE now
    /\ UNCHANGED <<startup, investor, rankVars, investVars, authVars, clientVars, docVars>>

NextScore ==
    \/ CalculateStartupScore
    \/ GenerateRecommendationReasons
    \/ GenerateInvestorMatchReasons
    \/ ScoreOne

SpecScore == InitScore /\ [][NextScore]_vars

(***************************************************************************)
(* calculateStageScore on its own, on risk tolerances and stages inside    *)
(* and outside the enumerated values                                       *)
(***************************************************************************)

RiskTolerancesTried ==
    {None, Some(""), Some("speculative"), Some("high")}
    \cup {Some(r) : r \in RiskTolerances}
StagesTried == Stages \cup {"seed", "series-a", ""}

InitStage ==
    /\ startup \in {Some([BaseStartup EXCEPT !.stage = st]) : st \in StagesTried}
    /\ investor \in {Some([BaseInvestor EXCEPT !.riskTolerance = rt]) :
                         rt \in RiskTolerancesTried}
    /\ out = Idle
    /\ now = 0
    /\ seen = {}
    /\ candidates = <<>>
    /\ users = <<>>
    /\ recs = IdleRecs
    /\ dbStartup = StoredStartup
    /\ dbUsers = StoredUsers
    /\ reqs = NoRequests
    /\ http = IdleHttp
    /\ otp = NoOtp
    /\ verifs = NoVerifs
    /\ failures = 0
    /\ state = initialState
    /\ storage = EmptyStorage
    /\ tasks = IdleTasks
    /\ documents = <<>>
    /\ forUserType = "investor"
    /\ complete = NotCalled

CalculateStageScore ==
    /\ out' = Outcome("calculateStageScore", calculateStageScore(startup, investor))
    /\ UNCHANGED <<startup, investor, now, seen, rankVars, investVars, authVars, clientVars, docVars>>

NextStage ==
    \/ CalculateStageScore

SpecStage == InitStage /\ [][NextStage]_vars

\* the risk tolerance the table is read with
ToleranceUsed ==
    IF Val(investor).riskTolerance \in {None, Some("")} THEN "moderate"
    ELSE Val(Val(investor).riskTolerance)

\* the entry of the table, 500 (0.5) for a combination it does not list
StageTableEntry ==
    IF ToleranceUsed \in RiskTolerances /\ Val(startup).stage \in Stages
    THEN stagePreferences[ToleranceUsed][Val(startup).stage]
    ELSE 500

\* C20: the stage sub-score is the table entry for (riskTolerance, stage),
\* with riskTolerance taken as 'moderate' when unset, and 0.5 for every
\* combination the table does not list, a riskTolerance or a stage outside
\* the enumerated values included; no combination raises an error.
C20_StageScore ==
    out.op = "calculateStageScore"
        => (out.error = "none" /\ out.score = StageTableEntry)

\* the same of the risk tolerances of the table and the unset one
StageScoreOnListedTolerance ==
    (out.op = "calculateStageScore" /\ ToleranceUsed \in RiskTolerances)
        => (out.error = "none" /\ out.score = StageTableEntry)

\* a stage outside the enumerated values scored 0.5 for an unset tolerance
StageDefaultWitness ==
    /\ out.op = "calculateStageScore"
    /\ Val(investor).riskTolerance = None
    /\ Val(startup).stage = "seed"
    /\ out.error = "none"
    /\ out.score = 500

(***************************************************************************)
(* calculateLocationScore on its own.  A stored location is an object      *)
(* whose city and country are optional for a user: register stores         *)
(* location || {} and the profile update stores the object of the request  *)
(* body as sent.  A field that is not there reads as undefined.            *)
(***************************************************************************)

Undefined == "undefined"

\* the locations of a startup: city and country are required
StartupLocationsTried ==
    {None,
     Location("Austin", "United States"), Location("Boston", "United States"),
     Location("Berlin", "Germany"), Location("Paris", "France"),
     Location("Lyon", "France"), Location("Pune", "India")}

\* the locations of a user
LocationsTried ==
    StartupLocationsTried
    \cup {Location("Austin", Undefined), Location(Undefined, "United States"),
          Location(Undefined, Undefined)}

InitLocation ==
    /\ startup \in {Some([BaseStartup EXCEPT !.location = l]) : l \in StartupLocationsTried}
    /\ investor \in {Some([BaseInvestor EXCEPT !.location = l]) : l \in LocationsTried}
    /\ out = Idle
    /\ now = 0
    /\ seen = {}
    /\ candidates = <<>>
    /\ users = <<>>
    /\ recs = IdleRecs
    /\ dbStartup = StoredStartup
    /\ dbUsers = StoredUsers
    /\ reqs = NoRequests
    /\ http = IdleHttp
    /\ otp = NoOtp
    /\ verifs = NoVerifs
    /\ failures = 0
    /\ state = initialState
    /\ storage = EmptyStorage
    /\ tasks = IdleTasks
    /\ documents = <<>>
    /\ forUserType = "investor"
    /\ complete = NotCalled

CalculateLocationScore ==
    /\ out' = Outcome("calculateLocationScore", calculateLocationScore(startup, investor))
    /\ UNCHANGED <<startup, investor, now, seen, rankVars, investVars, authVars, clientVars, docVars>>

NextLocation ==
    \/ CalculateLocationScore

SpecLocation == InitLocation /\ [][NextLocation]_vars

LocationMissing == Val(investor).location = None \/ Val(startup).location = None

\* both locations are there and name the same city / the same country
SameCity ==
    /\ ~LocationMissing
    /\ Val(Val(investor).location).city # Undefined
    /\ Val(Val(investor).location).city = Val(Val(startup).location).city

SameCountry ==
    /\ ~LocationMissing
    /\ Val(Val(investor).location).country # Undefined
    /\ Val(Val(investor).location).country = Val(Val(startup).location).country

DifferentCountries ==
    /\ ~LocationMissing
    /\ Val(Val(investor).location).country # Undefined
    /\ Val(Val(startup).location).country # Undefined
    /\ Val(Val(investor).location).country # Val(Val(startup).location).country

\* each location is absent or has its city and its country
LocationsComplete ==
    \A x \in {startup, investor} :
        Val(x).location # None
            => (Val(Val(x).location).city # Undefined
                /\ Val(Val(x).location).country # Undefined)

\* C21: the location sub-score is 1.0 for the same city, 0.8 for the same
\* country and not the same city, 0.6 for different countries when the
\* country of the startup is a major market, 0.4 otherwise, and 0.5 when the
\* location of the investor or of the startup is missing.
C21_LocationScore ==
    out.op = "calculateLocationScore" =>
        /\ out.error = "none"
        /\ LocationMissing => out.score = 500
        /\ SameCity => out.score = 1000
        /\ (SameCountry /\ ~SameCity) => out.score = 800
        /\ (DifferentCountries /\ ~SameCity) =>
               out.score = IF Val(Val(startup).location).country \in globalMarkets
                           THEN 600 ELSE 400

\* the same of locations that are absent or have both fields
LocationScoreOnCompleteLocations ==
    (out.op = "calculateLocationScore" /\ LocationsComplete) =>
        /\ out.error = "none"
        /\ LocationMissing => out.score = 500
        /\ SameCity => out.score = 1000
        /\ (SameCountry /\ ~SameCity) => out.score = 800
        /\ (DifferentCountries /\ ~SameCity) =>
               out.score = IF Val(Val(startup).location).country \in globalMarkets
                           THEN 600 ELSE 400

\* two complete locations in different countries, the startup in no major
\* market, scored 0.4
LocationMinorMarketWitness ==
    /\ out.op = "calculateLocationScore"
    /\ LocationsComplete
    /\ DifferentCountries
    /\ out.score = 400

(***************************************************************************)
(* Properties of the scorer (checked under SpecScore)                      *)
(***************************************************************************)

NonNull == startup # None /\ investor # None

\* every optional field the scorer reads is there
FieldsPresent ==
    /\ NonNull
    /\ Val(startup).location # None
    /\ Val(startup).founderExperience # None
    /\ Val(startup).metrics # None
    /\ Val(startup).engagement # None
    /\ Val(investor).riskTolerance # None
    /\ Val(investor).preferredSectors # None
    /\ Val(investor).investmentHistory # None
    /\ Val(investor).location # None

\* C1: with all referenced fields present, calculateStartupScore returns a
\* value between 0 and 100 (0 and 100000 thousandths), whatever the sub-scores.
C1_ScoreInRange ==
    (out.op = "calculateStartupScore" /\ FieldsPresent)
        => (out.error = "none" /\ 0 <= out.score /\ out.score <= 100000)

\* a complete pair whose weighted sum is negative (likes of -2000) and is
\* clamped to 0
C1_Witness ==
    /\ out.op = "calculateStartupScore"
    /\ FieldsPresent
    /\ Val(Val(startup).engagement).likes < 0
    /\ out.error = "none"
    /\ out.score = 0

C5_NeverRaisesOnMissingData ==
    (out.op = "calculateStartupScore" /\ NonNull) => out.error = "none"

\* C6: a returned reason list has at most 3 entries, none of them empty.
C6_ReasonsBounded ==
    (out.op \in {"generateRecommendationReasons", "generateInvestorMatchReasons",
                 "scoreOne"}
     /\ out.error = "none")
        => (Len(out.reasons) <= 3 /\ \A i \in DOMAIN out.reasons : out.reasons[i] # "")

\* four reasons apply (sector, stage, region, engagement) and three are kept
C6_Witness ==
    /\ out.op = "generateRecommendationReasons"
    /\ out.error = "none"
    /\ Val(Val(startup).engagement).likes > 50
    /\ Len(out.reasons) = 3
    /\ out.reasons[3] = "Located in your region"

\* the reasons of generateRecommendationReasons, highest priority first
ReasonPriority ==
    <<"Matches your preferred " \o Val(startup).sector \o " sector",
      "Early-stage opportunity matching your risk appetite",
      "Located in your region",
      "High community engagement",
      "Serial entrepreneur with proven track record",
      "Revenue-generating startup",
      "Top AI match score",
      "Strong AI match score">>

\* the reason of priority k applies to the startup, the investor and the score
ReasonApplies(k) ==
    CASE k = 1 -> /\ Val(investor).preferredSectors # None
                  /\ Val(startup).sector \in Val(Val(investor).preferredSectors)
      [] k = 2 -> /\ Val(investor).riskTolerance = Some("aggressive")
                  /\ Val(startup).stage \in {"idea", "prototype"}
      [] k = 3 -> \/ /\ Val(investor).location = None
                     /\ Val(startup).location = None
                  \/ /\ Val(investor).location # None
                     /\ Val(startup).location # None
                     /\ Val(Val(investor).location).country
                           = Val(Val(startup).location).country
      [] k = 4 -> Val(Val(startup).engagement).likes > 50
      [] k = 5 -> Val(startup).founderExperience = Some("serial")
      [] k = 6 -> /\ Val(startup).metrics # None
                  /\ Val(Val(startup).metrics).revenueMonthly > 0
      [] k = 7 -> out.score > 80000
      [] k = 8 -> out.score > 60000 /\ out.score <= 80000

\* the priorities of the reasons that apply
Applicable == {k \in DOMAIN ReasonPriority : ReasonApplies(k)}

\* the priority of the i-th returned reason, 0 if it is not a known reason
PriorityOf(i) ==
    IF \E k \in DOMAIN ReasonPriority : ReasonPriority[k] = out.reasons[i]
    THEN CHOOSE k \in DOMAIN ReasonPriority : ReasonPriority[k] = out.reasons[i]
    ELSE 0

\* C22: the reasons returned by generateRecommendationReasons are in the
\* fixed priority order (sector match, risk/stage, geography, engagement,
\* founder experience, revenue, score banner); the sector-match reason is the
\* first entry whenever the sector of the startup is among the preferred
\* sectors; and the list is the first 3 applicable reasons in that order.
C22_ReasonPriority ==
    (out.op \in {"generateRecommendationReasons", "scoreOne"} /\ out.error = "none")
        => /\ \A i \in DOMAIN out.reasons : PriorityOf(i) \in Applicable
           /\ \A i, j \in DOMAIN out.reasons : i < j => PriorityOf(i) < PriorityOf(j)
           /\ \A k \in Applicable :
                  (\A i \in DOMAIN out.reasons : PriorityOf(i) # k)
                      => /\ Len(out.reasons) = 3
                         /\ \A i \in DOMAIN out.reasons : PriorityOf(i) < k
           /\ 1 \in Applicable => (out.reasons # <<>> /\ PriorityOf(1) = 1)

\* five reasons apply, the sector match among them, and the banner and the
\* engagement reason are left out
C22_Witness ==
    /\ out.op = "generateRecommendationReasons"
    /\ out.error = "none"
    /\ {1, 2, 3, 4, 7} \subseteq Applicable
    /\ Len(out.reasons) = 3
    /\ out.reasons[1] = "Matches your preferred AI sector"

\* the sector does not match and a banner is among the three reasons
BannerReturnedWitness ==
    /\ out.op = "generateRecommendationReasons"
    /\ out.error = "none"
    /\ 1 \notin Applicable
    /\ \E i \in DOMAIN out.reasons : PriorityOf(i) = 7

\* C7: reason generation never throws for a non-null startup and investor,
\* whichever optional fields are absent.
C7_ReasonsNeverThrow ==
    (out.op \in {"generateRecommendationReasons", "generateInvestorMatchReasons"}
     /\ NonNull)
        => out.error = "none"

SectorVariants ==
    {[preferredSectors |-> p, investmentHistory |-> h] :
        p \in {Some({}), Some({"AI"}), Some({"Health"})},
        h \in {Some(<<>>), Some(History("AI")), Some(History("Health")),
               Some(<<[startupId |-> None, amount |-> 1000]>>)}}

WithSector(inv, v) ==
    Some([Val(inv) EXCEPT !.preferredSectors = v.preferredSectors,
                          !.investmentHistory = v.investmentHistory])

\* C9: the sector sub-score is 1.0 for a preferred sector, 0.8 for a sector
\* found in the investment history only, 0.3 otherwise; and, all else equal,
\* a higher sector sub-score never gives a lower overall score.
C9_SectorScore ==
    (out.op = "calculateStartupScore" /\ NonNull
     /\ Val(investor).investmentHistory # None /\ Val(startup).engagement # None)
        => /\ LET preferred ==
                      /\ Val(investor).preferredSectors # None
                      /\ Val(startup).sector \in Val(Val(investor).preferredSectors)
                  inHistory ==
                      \E e \in SeqToSet(Val(Val(investor).investmentHistory)) :
                          e.startupId # None
                          /\ Val(e.startupId).sector = Val(startup).sector
              IN  calculateSectorScore(startup, investor).score =
                      IF preferred THEN 1000 ELSE IF inHistory THEN 800 ELSE 300
           /\ \A v, w \in {[sector |->
                                calculateSectorScore(startup, WithSector(investor, x)).score,
                            overall |->
                                calculateStartupScore(startup, WithSector(investor, x)).score]
                           : x \in SectorVariants} :
                  v.sector >= w.sector => v.overall >= w.overall

\* a sector that is not preferred but was invested in before
C9_Witness ==
    /\ out.op = "calculateStartupScore"
    /\ out.error = "none"
    /\ NonNull
    /\ Val(startup).sector = "Health"
    /\ Val(investor).investmentHistory = Some(History("Health"))
    /\ calculateSectorScore(startup, investor).score = 800

Capacities == {0, 400, 10000, 100000}

WithCapacity(inv, c) == Some([Val(inv) EXCEPT !.investmentCapacity = c])

\* the funding-fit table of the claim for a minimum investment m and a capacity c
FundingTable(m, c) ==
    IF m > c THEN 100
    ELSE IF 20 * m >= c /\ 5 * m <= c THEN 1000
    ELSE IF 20 * m < c THEN 700
    ELSE 500

\* C10 as stated: the funding-fit sub-score follows the table on the
\* startup's minimumInvestment and the investor's capacity.
C10_FundingTableOnStoredMinimum ==
    (out.op = "calculateStartupScore" /\ NonNull)
        => calculateFundingScore(startup, investor).score =
               FundingTable(Val(startup).funding.minimumInvestment,
                            Val(investor).investmentCapacity)

\* C10 amended: the table holds with a minimumInvestment of 0 taken as 100;
\* and raising the capacity from below that minimum to a value that puts it
\* inside the [5%, 20%] band strictly increases the sub-score.
C10_FundingScore ==
    (out.op = "calculateStartupScore" /\ NonNull)
        => LET m == IF Val(startup).funding.minimumInvestment = 0 THEN 100
                    ELSE Val(startup).funding.minimumInvestment
           IN  /\ calculateFundingScore(startup, investor).score =
                      FundingTable(m, Val(investor).investmentCapacity)
               /\ \A c1, c2 \in Capacities :
                      (m > c1 /\ 20 * m >= c2 /\ 5 * m <= c2)
                      => calculateFundingScore(startup, WithCapacity(investor, c1)).score
                          < calculateFundingScore(startup, WithCapacity(investor, c2)).score

\* a minimum investment at exactly 5% of the capacity scores 1.0
C10_Witness ==
    /\ out.op = "calculateStartupScore"
    /\ NonNull
    /\ Val(startup).funding.minimumInvestment * 20 = Val(investor).investmentCapacity
    /\ Val(investor).investmentCapacity > 0
    /\ calculateFundingScore(startup, investor).score = 1000

\* the pair of the worked example: what the example fixes, and nothing else
Scenario ==
    /\ NonNull
    /\ Val(investor).riskTolerance = Some("aggressive")
    /\ Val(investor).preferredSectors = Some({"AI"})
    /\ Val(investor).investmentCapacity = 10000
    /\ CountryOf(investor) = "United States"
    /\ Val(startup).sector = "AI"
    /\ Val(startup).stage = "idea"
    /\ Val(startup).funding.minimumInvestment = 500
    /\ CountryOf(startup) = "United States"

\* the engagement counters are stored and none is negative
CountersStored ==
    /\ Val(startup).engagement # None
    /\ Val(Val(startup).engagement).likes >= 0
    /\ Val(Val(startup).engagement).views >= 0
    /\ Val(Val(startup).engagement).bookmarks >= 0
    /\ Val(startup).funding.investorCount >= 0

ScenarioSubScores ==
    /\ calculateSectorScore(startup, investor).score = 1000
    /\ calculateStageScore(startup, investor).score = 1000
    /\ calculateLocationScore(startup, investor).score >= 800
    /\ calculateFundingScore(startup, investor).score = 1000

SectorMatchFirst ==
    /\ Len(out.reasons) >= 1
    /\ out.reasons[1] = "Matches your preferred AI sector"

MaxCandidates == 3

\* Array.prototype.sort((a, b) => a.aiScore - b.aiScore): ascending
sortByAiScoreAscending(list) ==
    LET pos(i) == 1 + Cardinality({j \in DOMAIN list :
                        \/ list[j].aiScore < list[i].aiScore
                        \/ (list[j].aiScore = list[i].aiScore /\ j < i)})
    IN  [k \in DOMAIN list |-> list[CHOOSE i \in DOMAIN list : pos(i) = k]]

\* a sort that puts the later of two entries with the same score first
sortByAiScoreTiesReversed(list) ==
    LET pos(i) == 1 + Cardinality({j \in DOMAIN list :
                        \/ list[j].aiScore > list[i].aiScore
                        \/ (list[j].aiScore = list[i].aiScore /\ j > i)})
    IN  [k \in DOMAIN list |-> list[CHOOSE i \in DOMAIN list : pos(i) = k]]

\* Array.prototype.sort((a, b) => b.aiScore - a.aiScore): a stable sort, so an
\* entry comes after those with a higher score and after the earlier entries
\* with the same score
sortByAiScore(list) ==
    LET pos(i) == 1 + Cardinality({j \in DOMAIN list :
                        \/ list[j].aiScore > list[i].aiScore
                        \/ (list[j].aiScore = list[i].aiScore /\ j < i)})
    IN  [k \in DOMAIN list |-> list[CHOOSE i \in DOMAIN list : pos(i) = k]]

\* Startup.find({status: 'active', moderationStatus: 'approved'})
IsCandidate(s) == s.status = "active" /\ s.moderationStatus = "approved"
findActive(collection) == SelectSeq(collection, IsCandidate)

getStartupRecommendationsForInvestor(inv, collection, limit) ==
    IF inv = None
    THEN [op |-> "getStartupRecommendationsForInvestor", error |-> "Error",
          limit |-> limit, list |-> <<>>]
    ELSE LET startups == findActive(collection)
             \* Promise.all over startups.map: each startup is scored once
             results ==
                 <<>> @@ [i \in DOMAIN startups |-> scoreOne(Some(startups[i]), inv)]
             failed == {i \in DOMAIN startups : results[i].error # "none"}
             scoredStartups ==
                 [i \in DOMAIN startups |->
                     [startup |-> startups[i].id,
                      aiScore |-> results[i].score,
                      reasons |-> results[i].reasons]]
         IN  IF failed # {}
             THEN [op |-> "getStartupRecommendationsForInvestor",
                   error |-> results[CHOOSE i \in failed : \A j \in failed : i <= j].error,
                   limit |-> limit, list |-> <<>>]
             ELSE [op |-> "getStartupRecommendationsForInvestor", error |-> "none",
                   limit |-> limit,
                   list |-> Slice(sortByAiScore(scoredStartups), limit)]

\* a sort by match score that puts the later of two equal entries first
sortByMatchScoreTiesReversed(list) ==
    LET pos(i) == 1 + Cardinality({j \in DOMAIN list :
                        \/ list[j].matchScore > list[i].matchScore
                        \/ (list[j].matchScore = list[i].matchScore /\ j > i)})
    IN  [k \in DOMAIN list |-> list[CHOOSE i \in DOMAIN list : pos(i) = k]]

\* Array.prototype.sort((a, b) => b.matchScore - a.matchScore), stable
sortByMatchScore(list) ==
    LET pos(i) == 1 + Cardinality({j \in DOMAIN list :
                        \/ list[j].matchScore > list[i].matchScore
                        \/ (list[j].matchScore = list[i].matchScore /\ j < i)})
    IN  [k \in DOMAIN list |-> list[CHOOSE i \in DOMAIN list : pos(i) = k]]

\* User.find({userType: {$in: ['investor', 'both']}, status: 'active',
\*            kycStatus: 'verified'})
IsActiveInvestor(u) ==
    u.userType \in {"investor", "both"} /\ u.status = "active" /\ u.kycStatus = "verified"
findInvestors(collection) == SelectSeq(collection, IsActiveInvestor)

\* aiRecommendationService.js:70-77, the per-investor callback
matchOne(inv, s) ==
    LET score == calculateInvestorMatchScore(inv, s)
    IN  IF score.error # "none" THEN score
        ELSE generateInvestorMatchReasons(inv, s, score.score)

getInvestorRecommendationsForStartup(s, collection, limit) ==
    IF s = None
    THEN [op |-> "getInvestorRecommendationsForStartup", error |-> "Error",
          limit |-> limit, list |-> <<>>]
    ELSE LET investors == findInvestors(collection)
             \* Promise.all over investors.map: each investor is scored once
             results ==
                 <<>> @@ [i \in DOMAIN investors |-> matchOne(Some(investors[i]), s)]
             failed == {i \in DOMAIN investors : results[i].error # "none"}
             scoredInvestors ==
                 [i \in DOMAIN investors |->
                     [investor |-> investors[i].id,
                      matchScore |-> results[i].score,
                      reasons |-> results[i].reasons]]
         IN  IF failed # {}
             THEN [op |-> "getInvestorRecommendationsForStartup",
                   error |-> results[CHOOSE i \in failed : \A j \in failed : i <= j].error,
                   limit |-> limit, list |-> <<>>]
             ELSE [op |-> "getInvestorRecommendationsForStartup", error |-> "none",
                   limit |-> limit,
                   list |-> Slice(sortByMatchScore(scoredInvestors), limit)]

\* a stored User document: the account fields and the investor profile
UserDoc(id, userType, status, kycStatus, profile) ==
    [id |-> id, userType |-> userType, status |-> status, kycStatus |-> kycStatus,
     riskTolerance |-> profile.riskTolerance,
     preferredSectors |-> profile.preferredSectors,
     investmentCapacity |-> profile.investmentCapacity,
     investmentHistory |-> profile.investmentHistory,
     location |-> profile.location,
     totalInvested |-> profile.totalInvested,
     communityScore |-> profile.communityScore]

\* the stored users the investor ranking is run on
UserCatalogue ==
    {UserDoc(1, "investor", "active", "verified", BaseInvestor),
     UserDoc(2, "investor", "active", "verified",
             [BaseInvestor EXCEPT !.riskTolerance = Some("conservative"),
                                  !.preferredSectors = Some({"Health"}),
                                  !.investmentCapacity = 400,
                                  !.investmentHistory = Some(History("Health")),
                                  !.location = Location("Berlin", "Germany")]),
     UserDoc(3, "both", "active", "verified",
             [BaseInvestor EXCEPT !.riskTolerance = None,
                                  !.investmentCapacity = 100000,
                                  !.location = None,
                                  !.totalInvested = 20000]),
     UserDoc(4, "investor", "active", "verified", BaseInvestor),
     UserDoc(5, "entrepreneur", "active", "verified", BaseInvestor),
     UserDoc(6, "investor", "active", "pending", BaseInvestor),
     UserDoc(7, "investor", "active", "verified",
             [BaseInvestor EXCEPT !.preferredSectors = None])}

UserCollections ==
    {c \in UNION {[1..n -> UserCatalogue] : n \in 0..MaxCandidates} :
        \A i, j \in DOMAIN c : i # j => c[i].id # c[j].id}

\* the startups investors are ranked for
MatchedStartups ==
    {None, Some(BaseStartup),
     Some([BaseStartup EXCEPT !.sector = "Health", !.stage = "growth",
                              !.funding.minimumInvestment = 2000,
                              !.location = Location("Berlin", "Germany")])}

\* the stored startups the ranking is run on
Catalogue ==
    {BaseStartup,
     [BaseStartup EXCEPT !.id = 2, !.sector = "Health"],
     [BaseStartup EXCEPT !.id = 3, !.sector = "FinTech"],
     [BaseStartup EXCEPT !.id = 4, !.stage = "growth",
                         !.engagement = Engagement(60, 400, 10)],
     [BaseStartup EXCEPT !.id = 5, !.status = "draft", !.moderationStatus = "pending"],
     [BaseStartup EXCEPT !.id = 6, !.engagement = None]}

Collections ==
    {c \in UNION {[1..n -> Catalogue] : n \in 0..MaxCandidates} :
        \A i, j \in DOMAIN c : i # j => c[i].id # c[j].id}

\* the limit query parameter after parseInt
Limits == {-1, 0, 1, 2, 10}

InitRank ==
    /\ \/ /\ candidates \in Collections
          /\ investor \in {None, Some(BaseInvestor),
                     Some([BaseInvestor EXCEPT !.riskTolerance = Some("conservative"),
                                               !.preferredSectors = Some({"Health"})])}
          /\ users = <<>>
          /\ startup = None
       \/ /\ users \in UserCollections
          /\ startup \in MatchedStartups
          /\ candidates = <<>>
          /\ investor = None
    /\ recs = IdleRecs
    /\ out = Idle
    /\ now = 0
    /\ seen = {}
    /\ dbStartup = StoredStartup
    /\ dbUsers = StoredUsers
    /\ reqs = NoRequests
    /\ http = IdleHttp
    /\ otp = NoOtp
    /\ verifs = NoVerifs
    /\ failures = 0
    /\ state = initialState
    /\ storage = EmptyStorage
    /\ tasks = IdleTasks
    /\ documents = <<>>
    /\ forUserType = "investor"
    /\ complete = NotCalled

\* The general score of a startup, in thousandths of a point.  The stored
\* startups carry no metrics.marketSize, and Startup.find does not populate
\* founder, so founder?.entrepreneurProfile and founder?.communityScore are
\* undefined.
growthSectors == {"AI", "Health", "Climate", "FinTech"}

calculateMarketScore(s) ==
    Min(50000 + (IF s.sector \in growthSectors THEN 15000 ELSE 0), 100000)

calculateTeamScore(s) ==
    LET size == IF s.metrics = None THEN 0 ELSE Val(s.metrics).teamSize
        teamSize == IF size = 0 THEN 1 ELSE size
    IN  Min(40000 + 10000
            + (IF teamSize > 10 THEN 20000
               ELSE IF teamSize > 5 THEN 15000
               ELSE IF teamSize > 2 THEN 10000 ELSE 0),
            100000)

stageScores ==
    [s \in {"expansion", "growth", "early-revenue", "mvp", "prototype", "idea"} |->
        CASE s = "expansion" -> 30000
          [] s = "growth" -> 25000
          [] s = "early-revenue" -> 20000
          [] s = "mvp" -> 15000
          [] s = "prototype" -> 10000
          [] s = "idea" -> 5000]

calculateProductScore(s) ==
    LET total == IF s.metrics = None THEN 0 ELSE Val(s.metrics).usersTotal
        growth == IF s.metrics = None THEN 0 ELSE Val(s.metrics).usersGrowth
    IN  Min(30000
            + (IF s.stage \in DOMAIN stageScores THEN stageScores[s.stage] ELSE 0)
            + (IF total > 10000 THEN 20000
               ELSE IF total > 1000 THEN 15000
               ELSE IF total > 100 THEN 10000 ELSE 0)
            + (IF growth > 50 THEN 15000 ELSE IF growth > 20 THEN 10000 ELSE 0),
            100000)

\* startup.engagement.likes: a TypeError when the document has no engagement;
\* the funding progress is rounded down to a thousandth
calculateTractionScore(s) ==
    IF s.engagement = None THEN Throws("TypeError")
    ELSE LET e == Val(s.engagement)
             target == IF s.funding.targetAmount = 0 THEN 1 ELSE s.funding.targetAmount
         IN  Returns(Min(20000
                         + Min(e.likes * 100, 20000)
                         + Min(e.views * 10, 20000)
                         + Min(s.funding.investorCount * 5000, 25000)
                         + (s.funding.currentAmount * 15000) \div target,
                         100000),
                     <<>>)

calculateFinancialScore(s) ==
    LET monthlyRevenue == IF s.metrics = None THEN 0 ELSE Val(s.metrics).revenueMonthly
        revenueGrowth == IF s.metrics = None THEN 0 ELSE Val(s.metrics).revenueGrowth
    IN  Min(25000
            + (IF monthlyRevenue > 100000 THEN 35000
               ELSE IF monthlyRevenue > 10000 THEN 25000
               ELSE IF monthlyRevenue > 1000 THEN 15000
               ELSE IF monthlyRevenue > 0 THEN 10000 ELSE 0)
            + (IF revenueGrowth > 100 THEN 25000
               ELSE IF revenueGrowth > 50 THEN 20000
               ELSE IF revenueGrowth > 20 THEN 15000
               ELSE IF revenueGrowth > 0 THEN 10000 ELSE 0)
            \* burnRate = currentAmount / 12; monthlyRevenue / burnRate > 0.5
            + (IF s.funding.currentAmount > 0
                  /\ monthlyRevenue * 24 > s.funding.currentAmount
               THEN 15000 ELSE 0),
            100000)

calculateGeneralStartupScore(s) ==
    [market |-> calculateMarketScore(s),
     team |-> calculateTeamScore(s),
     product |-> calculateProductScore(s),
     traction |-> calculateTractionScore(s).score,
     financials |-> calculateFinancialScore(s)]

\* models/Startup.js updateAIScore: the mean of the five categories (rounded
\* down to a thousandth), the time of the update, and save()
updateAIScore(s, scores, t) ==
    [s EXCEPT !.aiScore =
        Some([categories |-> scores,
              overall |-> (scores.market + scores.team + scores.product
                           + scores.traction + scores.financials) \div 5,
              lastUpdated |-> t])]

\* Startup.find({status: 'active'}), then one save per startup; the first
\* startup whose score throws ends the loop, and the error is logged only
updateAllStartupAIScores(collection, t) ==
    LET failing == {i \in DOMAIN collection :
                       /\ collection[i].status = "active"
                       /\ calculateTractionScore(collection[i]).error # "none"}
        done(i) == /\ collection[i].status = "active"
                   /\ \A j \in failing : i < j
    IN  [i \in DOMAIN collection |->
            IF done(i)
            THEN updateAIScore(collection[i],
                               calculateGeneralStartupScore(collection[i]), t)
            ELSE collection[i]]

\* the refresh query parameter: absent, or a string
Refreshes == {None, Some("true"), Some("false")}

\* routes/recommendations.js GET /startups, behind auth and requireRole
GetRecommendationsStartups ==
    \E limit \in Limits, refresh \in Refreshes :
        /\ candidates' = IF refresh = Some("true")
                         THEN updateAllStartupAIScores(candidates, now)
                         ELSE candidates
        /\ recs' = [getStartupRecommendationsForInvestor(investor, candidates', limit)
                       EXCEPT !.op = "GET /recommendations/startups"]
        /\ UNCHANGED <<users, scoreVars, investVars, authVars, clientVars, docVars>>

GetStartupRecommendationsForInvestor ==
    \E limit \in Limits :
        /\ recs' = getStartupRecommendationsForInvestor(investor, candidates, limit)
        /\ UNCHANGED <<candidates, users, scoreVars, investVars, authVars, clientVars, docVars>>

GetInvestorRecommendationsForStartup ==
    \E limit \in Limits :
        /\ recs' = getInvestorRecommendationsForStartup(startup, users, limit)
        /\ UNCHANGED <<candidates, users, scoreVars, investVars, authVars, clientVars, docVars>>

NextRank ==
    \/ GetRecommendationsStartups
    \/ GetStartupRecommendationsForInvestor
    \/ GetInvestorRecommendationsForStartup

SpecRank == InitRank /\ [][NextRank]_vars

Sorted(list) ==
    \A i, j \in DOMAIN list : i < j => list[i].aiScore >= list[j].aiScore

\* every active startup that is not returned scores no more than any returned one
LeftOutBelow(list) ==
    \A c \in SeqToSet(findActive(candidates)) :
        (\A i \in DOMAIN list : list[i].startup # c.id)
        => \A i \in DOMAIN list : scoreOne(Some(c), investor).score <= list[i].aiScore

\* C3: the returned list is sorted non-increasing by aiScore, has at most
\* limit entries (none for a negative limit), and no startup left out scores
\* more than a returned one.
C3_TopLimit ==
    (recs.op = "getStartupRecommendationsForInvestor" /\ recs.error = "none")
        => /\ Sorted(recs.list)
           /\ Len(recs.list) <= Max(recs.limit, 0)
           /\ LeftOutBelow(recs.list)

\* What the code guarantees instead: the same for a limit of 0 or more; for a
\* negative limit the list is the ranking without its last -limit entries.
TopLimitNonNegative ==
    (recs.op = "getStartupRecommendationsForInvestor" /\ recs.error = "none")
        => /\ Sorted(recs.list)
           /\ recs.limit >= 0 => Len(recs.list) <= recs.limit
           /\ recs.limit < 0 =>
                  Len(recs.list) = Max(Len(findActive(candidates)) + recs.limit, 0)
           /\ LeftOutBelow(recs.list)

\* three candidates with different scores, given out of order, cut to two
TopLimitWitness ==
    /\ recs.op = "getStartupRecommendationsForInvestor"
    /\ recs.error = "none"
    /\ recs.limit = 2
    /\ Len(findActive(candidates)) = 3
    /\ Len(recs.list) = 2
    /\ candidates[1].id # recs.list[1].startup
    /\ recs.list[1].aiScore > recs.list[2].aiScore

\* the place of the startup with this id in what the query returned
PlaceOf(id) ==
    CHOOSE i \in DOMAIN findActive(candidates) : findActive(candidates)[i].id = id

\* the stored user with this id
UserOf(id) == CHOOSE u \in SeqToSet(users) : u.id = id

\* the place of the investor with this id in what the query returned
PlaceOfInvestor(id) ==
    CHOOSE i \in DOMAIN findInvestors(users) : findInvestors(users)[i].id = id

\* C12: two candidates with the same overall score come out in the order in
\* which the query returned them, in the startup ranking and in the
\* investor ranking.
C12_TiesKeepInputOrder ==
    /\ (recs.op = "getStartupRecommendationsForInvestor" /\ recs.error = "none")
        => \A i, j \in DOMAIN recs.list :
               (i < j /\ recs.list[i].aiScore = recs.list[j].aiScore)
               => PlaceOf(recs.list[i].startup) < PlaceOf(recs.list[j].startup)
    /\ (recs.op = "getInvestorRecommendationsForStartup" /\ recs.error = "none")
        => \A i, j \in DOMAIN recs.list :
               (i < j /\ recs.list[i].matchScore = recs.list[j].matchScore)
               => PlaceOfInvestor(recs.list[i].investor)
                      < PlaceOfInvestor(recs.list[j].investor)

\* two startups with the same score, returned by the query against the order
\* of their ids and after a startup that scores higher than both
C12_Witness ==
    /\ recs.op = "getStartupRecommendationsForInvestor"
    /\ recs.error = "none"
    /\ Len(recs.list) = 3
    /\ recs.list[2].aiScore = recs.list[3].aiScore
    /\ recs.list[1].aiScore > recs.list[2].aiScore
    /\ recs.list[2].startup > recs.list[3].startup
    /\ PlaceOf(recs.list[1].startup) = 3

\* the same in the investor ranking: investors 4 and 1 have the same profile
TiedInvestorsWitness ==
    /\ recs.op = "getInvestorRecommendationsForStartup"
    /\ recs.error = "none"
    /\ Len(recs.list) >= 2
    /\ recs.list[1].matchScore = recs.list[2].matchScore
    /\ recs.list[1].investor > recs.list[2].investor

\* the match score of the claim: the weighted sum, clamped, with every factor
\* between 0 and 1
MatchScoreAsWeighted(entry) ==
    LET f == matchFactors(Some(UserOf(entry.investor)), startup)
    IN  /\ \A k \in DOMAIN f : 0 <= f[k] /\ f[k] <= 1000
        /\ entry.matchScore =
               Min(Max(30 * f.sectorInterest + 25 * f.capacityScore + 20 * f.riskScore
                       + 15 * f.patternScore + 10 * f.geoScore, 0), 100000)
        /\ 0 <= entry.matchScore /\ entry.matchScore <= 100000

SortedByMatch(list) ==
    \A i, j \in DOMAIN list : i < j => list[i].matchScore >= list[j].matchScore

\* C13: a match score is the clamped weighted sum of five factors, each in
\* [0,1], so it lies in [0,100]; the investors come back sorted non-increasing
\* by match score and cut to limit entries (none for a negative limit).
C13_MatchScoreRanking ==
    (recs.op = "getInvestorRecommendationsForStartup" /\ recs.error = "none")
        => /\ \A i \in DOMAIN recs.list : MatchScoreAsWeighted(recs.list[i])
           /\ SortedByMatch(recs.list)
           /\ Len(recs.list) <= Max(recs.limit, 0)

\* What the code guarantees instead: the same for a limit of 0 or more; for a
\* negative limit the list is the ranking without its last -limit entries.
MatchRankingNonNegative ==
    (recs.op = "getInvestorRecommendationsForStartup" /\ recs.error = "none")
        => /\ \A i \in DOMAIN recs.list : MatchScoreAsWeighted(recs.list[i])
           /\ SortedByMatch(recs.list)
           /\ recs.limit >= 0 => Len(recs.list) = Min(recs.limit, Len(findInvestors(users)))
           /\ recs.limit < 0 =>
                  Len(recs.list) = Max(Len(findInvestors(users)) + recs.limit, 0)

\* three investors with different match scores, given out of order, cut to two
MatchRankingWitness ==
    /\ recs.op = "getInvestorRecommendationsForStartup"
    /\ recs.error = "none"
    /\ recs.limit = 2
    /\ Len(findInvestors(users)) = 3
    /\ Len(recs.list) = 2
    /\ users[1].id # recs.list[1].investor
    /\ recs.list[1].matchScore > recs.list[2].matchScore
    /\ recs.list[2].matchScore \notin {0, 100000}

\* C19: serving GET /recommendations/startups, with any query parameters,
\* only reads: every stored startup document and user document is the same
\* after the request as before it, and no score is persisted.
C19_RecommendationsOnlyRead ==
    [][recs'.op = "GET /recommendations/startups"
          => /\ candidates' = candidates
             /\ investor' = investor
             /\ users' = users
             /\ dbUsers' = dbUsers]_vars

\* the same of the requests that do not send refresh=true: the ranking in
\* the answer is the one the service computes from the stored documents
RecommendationsWithoutRefreshOnlyRead ==
    (recs.op = "GET /recommendations/startups"
        /\ \A i \in DOMAIN candidates : candidates[i].aiScore = None)
    => recs = [getStartupRecommendationsForInvestor(investor, candidates, recs.limit)
                  EXCEPT !.op = "GET /recommendations/startups"]

\* a request has left an aiScore in a stored startup
ScorePersistedWitness ==
    /\ recs.op = "GET /recommendations/startups"
    /\ \E i \in DOMAIN candidates :
           /\ candidates[i].aiScore # None
           /\ Val(candidates[i].aiScore).overall > 0

(***************************************************************************)
(* aiRecommendationService.js: trending sectors                            *)
(*                                                                         *)
(* The aggregation pipeline runs in the database: $match, $group by        *)
(* sector, $sort by total funding then average views (both descending),    *)
(* $limit 5.  $avg skips the documents that have no views and is null when *)
(* none has; null sorts below every number.  The order of two groups that  *)
(* agree on both sort keys is left to the database: either may come first. *)
(***************************************************************************)

MaxSectors == 6

\* startupSchema sector enum
Sectors ==
    <<"AI", "Health", "Climate", "EdTech", "FinTech", "E-commerce", "Gaming", "Other">>

SectorsUsed == SubSeq(Sectors, 1, Min(MaxSectors, Len(Sectors)))

TrendDoc(id, sector, status, moderationStatus, currentAmount, engagement) ==
    [BaseStartup EXCEPT !.id = id, !.sector = sector, !.status = status,
                        !.moderationStatus = moderationStatus,
                        !.funding.currentAmount = currentAmount,
                        !.engagement = engagement]

\* one active startup per sector, with a total of 100, 200, 200, 300, 300, ...
\* so that the second and the third sector tie on the total only and the
\* fourth and the fifth on both keys, and further startups: a second one in
\* the first sector, a draft, one awaiting moderation, one without views
TrendCatalogue ==
    [i \in DOMAIN SectorsUsed |->
        TrendDoc(i, SectorsUsed[i], "active", "approved",
                 100 * ((i + 2) \div 2),
                 Engagement(0, IF i = 3 THEN 50 ELSE 10, 0))]
    \o <<TrendDoc(11, "AI", "active", "approved", 100, Engagement(0, 30, 0)),
         TrendDoc(12, "Health", "draft", "approved", 5000, Engagement(0, 900, 0)),
         TrendDoc(13, "Climate", "active", "pending", 5000, Engagement(0, 900, 0)),
         TrendDoc(14, "Other", "active", "approved", 100, None)>>

\* the documents at the places in S, in their order
SubCollection(seq, S) ==
    [i \in 1..Cardinality(S) |->
        seq[CHOOSE k \in S : Cardinality({m \in S : m < k}) = i - 1]]

TrendCollections == {SubCollection(TrendCatalogue, S) : S \in SUBSET DOMAIN TrendCatalogue}

RECURSIVE SumSeq(_)
SumSeq(numbers) ==
    IF numbers = <<>> THEN 0 ELSE Head(numbers) + SumSeq(Tail(numbers))

HasViews(doc) == doc.engagement # None

\* $group: {_id: '$sector', totalFunding: {$sum: '$funding.currentAmount'},
\*          startupCount: {$sum: 1}, avgEngagement: {$avg: '$engagement.views'}}
\* the average is kept as the sum and the number of the values averaged
GroupOf(sector, matched) ==
    LET InSector(doc) == doc.sector = sector
        members == SelectSeq(matched, InSector)
        viewed == SelectSeq(members, HasViews)
    IN  [sector |-> sector,
         totalFunding |->
             SumSeq([i \in DOMAIN members |-> members[i].funding.currentAmount]),
         startupCount |-> Len(members),
         viewsSum |-> SumSeq([i \in DOMAIN viewed |-> Val(viewed[i].engagement).views]),
         viewsCount |-> Len(viewed)]

\* a's average is greater than b's; null is below every number
AvgAbove(a, b) ==
    IF a.viewsCount = 0 THEN FALSE
    ELSE IF b.viewsCount = 0 THEN TRUE
    ELSE a.viewsSum * b.viewsCount > b.viewsSum * a.viewsCount

\* $sort: {totalFunding: -1, avgEngagement: -1}: a must come before b
SortsBefore(a, b) ==
    \/ a.totalFunding > b.totalFunding
    \/ (a.totalFunding = b.totalFunding /\ AvgAbove(a, b))

SectorIndex(sector) == CHOOSE i \in DOMAIN Sectors : Sectors[i] = sector

\* the sort with the groups that agree on both keys in the order of the
\* sectors (natural) or against it
sortTrending(groups, natural) ==
    LET first(a, b) ==
            \/ SortsBefore(a, b)
            \/ /\ ~SortsBefore(b, a)
               /\ IF natural THEN SectorIndex(a.sector) < SectorIndex(b.sector)
                  ELSE SectorIndex(a.sector) > SectorIndex(b.sector)
        pos(g) == 1 + Cardinality({h \in groups : first(h, g)})
    IN  [k \in 1..Cardinality(groups) |-> CHOOSE g \in groups : pos(g) = k]

\* the pipeline without its $match stage
getTrendingSectorsUnmatched(collection, natural) ==
    LET groups == {GroupOf(sector, collection) : sector \in {collection[i].sector : i \in DOMAIN collection}}
    IN  [op |-> "getTrendingSectors", error |-> "none", limit |-> 5,
         list |-> Slice(sortTrending(groups, natural), 5)]

getTrendingSectors(collection, natural) ==
    LET matched == findActive(collection)
        groups == {GroupOf(sector, matched) : sector \in {matched[i].sector : i \in DOMAIN matched}}
    IN  [op |-> "getTrendingSectors", error |-> "none", limit |-> 5,
         list |-> Slice(sortTrending(groups, natural), 5)]

InitTrend ==
    /\ candidates \in TrendCollections
    /\ users = <<>>
    /\ recs = IdleRecs
    /\ startup = None
    /\ investor = None
    /\ out = Idle
    /\ now = 0
    /\ seen = {}
    /\ dbStartup = StoredStartup
    /\ dbUsers = StoredUsers
    /\ reqs = NoRequests
    /\ http = IdleHttp
    /\ otp = NoOtp
    /\ verifs = NoVerifs
    /\ failures = 0
    /\ state = initialState
    /\ storage = EmptyStorage
    /\ tasks = IdleTasks
    /\ documents = <<>>
    /\ forUserType = "investor"
    /\ complete = NotCalled

GetTrendingSectors ==
    \E natural \in BOOLEAN :
        /\ recs' = getTrendingSectors(candidates, natural)
        /\ UNCHANGED <<candidates, users, scoreVars, investVars, authVars, clientVars, docVars>>

NextTrend == GetTrendingSectors

SpecTrend == InitTrend /\ [][NextTrend]_vars

\* the active startups of a sector, counted straight from the collection
ActiveIn(sector) ==
    {i \in DOMAIN candidates :
        candidates[i].sector = sector /\ candidates[i].status = "active"
        /\ candidates[i].moderationStatus = "approved"}

RECURSIVE SumFunding(_)
SumFunding(S) ==
    IF S = {} THEN 0
    ELSE LET i == CHOOSE x \in S : TRUE
         IN  candidates[i].funding.currentAmount + SumFunding(S \ {i})

\* C14: getTrendingSectors returns at most 5 groups; a group is built from
\* the active (and approved) startups of its sector only, and carries the sum
\* of their funding.currentAmount and their number; no sector appears twice;
\* the groups are ordered by total funding descending, and by average views
\* descending where the totals are equal.
C14_TrendingSectors ==
    recs.op = "getTrendingSectors"
        => /\ recs.error = "none"
           /\ Len(recs.list) <= 5
           /\ \A i \in DOMAIN recs.list :
                  /\ ActiveIn(recs.list[i].sector) # {}
                  /\ recs.list[i].startupCount = Cardinality(ActiveIn(recs.list[i].sector))
                  /\ recs.list[i].totalFunding = SumFunding(ActiveIn(recs.list[i].sector))
           /\ \A i, j \in DOMAIN recs.list :
                  i # j => recs.list[i].sector # recs.list[j].sector
           /\ \A i, j \in DOMAIN recs.list :
                  i < j =>
                      /\ recs.list[i].totalFunding >= recs.list[j].totalFunding
                      /\ recs.list[i].totalFunding = recs.list[j].totalFunding
                             => ~AvgAbove(recs.list[j], recs.list[i])

\* six sectors have active startups and five groups come back; two of them
\* have the same total and the one with more views on average comes first;
\* a draft with a larger amount in one of the sectors is not counted
C14_Witness ==
    /\ recs.op = "getTrendingSectors"
    /\ Cardinality({s \in SeqToSet(Sectors) : ActiveIn(s) # {}}) >= 6
    /\ Len(recs.list) = 5
    /\ \E i \in 1..4 :
           /\ ~SortsBefore(recs.list[i], recs.list[i + 1])
           /\ SectorIndex(recs.list[i].sector) > SectorIndex(recs.list[i + 1].sector)
    /\ \E i \in 1..4 :
           /\ recs.list[i].totalFunding = recs.list[i + 1].totalFunding
           /\ AvgAbove(recs.list[i], recs.list[i + 1])
    /\ \E i \in DOMAIN candidates :
           candidates[i].status = "draft" /\ candidates[i].sector = "Health"
    /\ \E i \in DOMAIN recs.list :
           recs.list[i].sector = "Health" /\ recs.list[i].totalFunding = 200

(***************************************************************************)
(* A request on its way through the middleware of its route                *)
(***************************************************************************)

Middleware(name, roles) == [name |-> name, roles |-> roles]

\* the middleware lists of the routes, and requireRole / requireKYC mounted
\* with no auth in front of them
Chains ==
    {<<Middleware("auth", {})>>,
     <<Middleware("auth", {}), Middleware("requireRole", {"investor"})>>,
     <<Middleware("auth", {}), Middleware("requireRole", {"entrepreneur"})>>,
     <<Middleware("auth", {}), Middleware("requireRole", {"investor"}),
       Middleware("requireKYC", {})>>,
     <<Middleware("auth", {}), Middleware("requireKYC", {})>>,
     <<Middleware("optionalAuth", {})>>,
     <<Middleware("optionalAuth", {}), Middleware("requireRole", {"investor", "entrepreneur"})>>,
     <<Middleware("requireRole", {"investor"})>>,
     <<Middleware("requireKYC", {})>>}

InitAuth ==
    /\ http \in {[IdleHttp EXCEPT !.chain = c, !.header = h] : c \in Chains, h \in Headers}
    /\ otp = NoOtp
    /\ verifs = NoVerifs
    /\ failures = 0
    /\ startup = None
    /\ investor = None
    /\ out = Idle
    /\ now = 0
    /\ seen = {}
    /\ candidates = <<>>
    /\ users = <<>>
    /\ recs = IdleRecs
    /\ dbStartup = StoredStartup
    /\ dbUsers = StoredUsers
    /\ reqs = NoRequests
    /\ state = initialState
    /\ storage = EmptyStorage
    /\ tasks = IdleTasks
    /\ documents = <<>>
    /\ forUserType = "investor"
    /\ complete = NotCalled

\* the middleware at the head of what is left of the list is this one
Pending(name) ==
    /\ http.response = 0
    /\ http.at <= Len(http.chain)
    /\ http.chain[http.at].name = name

\* the request after a middleware has answered it or called next()
After(result, name) ==
    IF result.next
    THEN [http EXCEPT !.at = @ + 1, !.user = result.user,
                      !.userProfile = result.userProfile]
    ELSE [http EXCEPT !.response = result.response, !.message = result.message,
                      !.by = name]

Auth ==
    /\ Pending("auth")
    /\ http' = After(auth(http.header), "auth")
    /\ UNCHANGED <<otp, verifs, failures, scoreVars, rankVars, investVars, clientVars, docVars>>

OptionalAuth ==
    /\ Pending("optionalAuth")
    /\ http' = After(optionalAuth(http.header), "optionalAuth")
    /\ UNCHANGED <<otp, verifs, failures, scoreVars, rankVars, investVars, clientVars, docVars>>

RequireRole ==
    /\ Pending("requireRole")
    /\ http' = After(requireRole(http.chain[http.at].roles, http.user, http.userProfile),
                     "requireRole")
    /\ UNCHANGED <<otp, verifs, failures, scoreVars, rankVars, investVars, clientVars, docVars>>

RequireKYC ==
    /\ Pending("requireKYC")
    /\ http' = After(requireKYC(http.user, http.userProfile), "requireKYC")
    /\ UNCHANGED <<otp, verifs, failures, scoreVars, rankVars, investVars, clientVars, docVars>>

\* the route handler, once every middleware has called next()
Handler ==
    /\ http.response = 0
    /\ http.chain # <<>>
    /\ http.at > Len(http.chain)
    /\ http' = [http EXCEPT !.handlerRan = TRUE, !.response = 200, !.by = "handler"]
    /\ UNCHANGED <<otp, verifs, failures, scoreVars, rankVars, investVars, clientVars, docVars>>

NextAuth ==
    \/ Auth
    \/ OptionalAuth
    \/ RequireRole
    \/ RequireKYC
    \/ Handler

SpecAuth == InitAuth /\ [][NextAuth]_vars

\* auth is the first middleware of the route
Guarded == http.chain # <<>> /\ http.chain[1].name = "auth"

\* C16: a request to a route guarded by auth reaches the handler only if it
\* carries a token that verifies, the user of the token exists and the status
\* of that user is active; a request with no token is answered 401 with the
\* message 'Access denied. No token provided.' and the handler is not run.
C16_AuthGuard ==
    Guarded =>
        /\ http.handlerRan =>
               /\ TokenOf(http.header) # None
               /\ Val(TokenOf(http.header)).kind = "valid"
               /\ Val(TokenOf(http.header)).userId # None
               /\ Val(Val(TokenOf(http.header)).userId) \in DOMAIN StoredAccounts
               /\ StoredAccounts[Val(Val(TokenOf(http.header)).userId)].status = "active"
        /\ (TokenOf(http.header) = None /\ (http.at > 1 \/ http.response # 0)) =>
               /\ http.response = 401
               /\ http.message = "Access denied. No token provided."
               /\ ~http.handlerRan

\* a request whose header is "Bearer " and nothing more has been answered
C16_Witness ==
    /\ Guarded
    /\ http.header = Some([scheme |-> "Bearer", token |-> None])
    /\ http.response = 401
    /\ http.by = "auth"

\* a request with the token of an active user has reached the handler of a
\* route that lists auth only
AuthPassWitness ==
    /\ Guarded
    /\ Len(http.chain) = 1
    /\ http.handlerRan
    /\ http.user = Some([userId |-> Some("u1")])

\* the place of requireRole in the route, 0 if it is not listed
RolePlace ==
    IF \E k \in DOMAIN http.chain : http.chain[k].name = "requireRole"
    THEN CHOOSE k \in DOMAIN http.chain : http.chain[k].name = "requireRole"
    ELSE 0

\* requireRole has let the request through / has answered it
RoleLetThrough == RolePlace > 0 /\ http.at > RolePlace
RoleAnswered == RolePlace > 0 /\ http.by = "requireRole"

RoleAllowed ==
    /\ http.userProfile # None
    /\ \/ Val(http.userProfile).userType = "both"
       \/ Val(http.userProfile).userType \in http.chain[RolePlace].roles

\* C17: requireRole(roles) lets a request through if and only if a user
\* profile is attached and its userType is 'both' or is one of roles; with no
\* profile it answers 401, with a profile of another type 403, and in both
\* cases the handler is not run.
C17_RequireRole ==
    (RoleLetThrough \/ RoleAnswered) =>
        /\ RoleLetThrough <=> RoleAllowed
        /\ (http.userProfile = None) => (http.response = 401 /\ ~http.handlerRan)
        /\ (http.userProfile # None /\ ~RoleAllowed)
               => (http.response = 403 /\ ~http.handlerRan)

\* a user of type 'both' has reached the handler of a route for investors
C17_Witness ==
    /\ RoleLetThrough
    /\ http.handlerRan
    /\ http.chain[RolePlace].roles = {"investor"}
    /\ Val(http.userProfile).userType = "both"

\* an entrepreneur is answered 403 on a route for investors; a request with
\* no profile is answered 401
RoleDeniedWitness ==
    /\ RoleAnswered
    /\ http.response = 403
    /\ Val(http.userProfile).userType = "entrepreneur"

RoleUnauthenticatedWitness ==
    /\ RoleAnswered
    /\ http.response = 401
    /\ http.userProfile = None

(***************************************************************************)
(* models/User.js generateOTP / verifyOTP and routes/auth.js POST          *)
(* /verify-otp                                                             *)
(*                                                                         *)
(* The clock counts in units of ten minutes.  A verify-otp request reads   *)
(* the user document, runs verifyOTP on its copy and saves the copy; the   *)
(* save writes the paths changed on the copy (otp.attempts, or otp itself  *)
(* when it was cleared).                                                   *)
(***************************************************************************)

MaxTime == 2

\* 10 * 60 * 1000 ms
OtpLifetime == 1

IssuedCode == "123456"

\* what the client sends as otp: the code, another six digits, too few digits
Codes == {IssuedCode, "654321", "12"}

generateOTP(t) == [code |-> Some(IssuedCode), expiresAt |-> t + OtpLifetime, attempts |-> 0]

\* verifyOTP on a copy of the document at time t: the result and the copy
verifyOTP(doc, otpCode, t) ==
    IF doc.code = None THEN [ok |-> FALSE, doc |-> doc, dirty |-> FALSE]
    ELSE IF doc.attempts >= 3 THEN [ok |-> FALSE, doc |-> doc, dirty |-> FALSE]
    ELSE IF t > doc.expiresAt THEN [ok |-> FALSE, doc |-> doc, dirty |-> FALSE]
    ELSE IF Val(doc.code) = otpCode THEN [ok |-> TRUE, doc |-> NoOtp, dirty |-> TRUE]
    ELSE [ok |-> FALSE, doc |-> [doc EXCEPT !.attempts = @ + 1], dirty |-> TRUE]

InitOtp ==
    /\ otp = generateOTP(0)
    /\ verifs = NoVerifs
    /\ failures = 0
    /\ now = 0
    /\ http = IdleHttp
    /\ startup = None
    /\ investor = None
    /\ out = Idle
    /\ seen = {}
    /\ candidates = <<>>
    /\ users = <<>>
    /\ recs = IdleRecs
    /\ dbStartup = StoredStartup
    /\ dbUsers = StoredUsers
    /\ reqs = NoRequests
    /\ state = initialState
    /\ storage = EmptyStorage
    /\ tasks = IdleTasks
    /\ documents = <<>>
    /\ forUserType = "investor"
    /\ complete = NotCalled

\* a verify-otp request arrives
ReceiveVerify(r) ==
    /\ verifs[r].pc = "idle"
    /\ \A q \in Verifies : q < r => verifs[q].pc # "idle"
    /\ \E code \in Codes :
           verifs' = [verifs EXCEPT ![r].pc = "received", ![r].code = code,
                                    ![r].failedBefore = failures]
    /\ UNCHANGED <<otp, failures, http, scoreVars, rankVars, investVars, clientVars, docVars>>

\* validationResult, User.findOne and user.verifyOTP(otp)
FindUserAndVerify(r) ==
    /\ verifs[r].pc = "received"
    /\ IF Len(verifs[r].code) # 6
       THEN /\ verifs' = [verifs EXCEPT ![r].pc = "done", ![r].response = 400]
       ELSE LET result == verifyOTP(otp, verifs[r].code, now)
            IN  verifs' = [verifs EXCEPT ![r].pc = "save", ![r].doc = Some(result.doc),
                                         ![r].ok = result.ok, ![r].dirty = result.dirty,
                                         ![r].at = now]
    /\ UNCHANGED <<otp, failures, http, scoreVars, rankVars, investVars, clientVars, docVars>>

\* await user.save() and the response
SaveVerify(r) ==
    /\ verifs[r].pc = "save"
    /\ otp' = IF ~verifs[r].dirty THEN otp
              ELSE IF verifs[r].ok THEN NoOtp
              ELSE [otp EXCEPT !.attempts = Val(verifs[r].doc).attempts]
    /\ verifs' = [verifs EXCEPT ![r].pc = "done",
                                ![r].response = IF verifs[r].ok THEN 200 ELSE 401]
    /\ failures' = IF verifs[r].ok THEN failures ELSE failures + 1
    /\ UNCHANGED <<http, scoreVars, rankVars, investVars, clientVars, docVars>>

\* ten minutes pass
TickOtp ==
    /\ now < MaxTime
    /\ now' = now + 1
    /\ UNCHANGED <<startup, investor, out, seen, rankVars, investVars, authVars, clientVars, docVars>>

NextOtp ==
    \/ \E r \in Verifies : ReceiveVerify(r)
    \/ \E r \in Verifies : FindUserAndVerify(r)
    \/ \E r \in Verifies : SaveVerify(r)
    \/ TickOtp

SpecOtp == InitOtp /\ [][NextOtp]_vars

\* C15: a verification succeeds only if it is made within ten minutes of the
\* generation of the OTP and fewer than 3 verifications of that OTP had
\* failed when the request arrived.
C15_OtpLockout ==
    \A r \in Verifies :
        verifs[r].response = 200
        => /\ verifs[r].at <= OtpLifetime
           /\ verifs[r].failedBefore < 3

\* What the code guarantees instead: a verification succeeds only within ten
\* minutes and only while the attempts recorded in the stored document are
\* fewer than 3; and the recorded attempts never exceed the failed ones.
OtpLockoutOnRecordedAttempts ==
    /\ \A r \in Verifies : verifs[r].response = 200 => verifs[r].at <= OtpLifetime
    /\ otp.attempts <= failures
    /\ otp.attempts <= 3
    /\ \A r \in Verifies :
           (verifs[r].pc = "received" /\ otp.attempts >= 3 /\ Len(verifs[r].code) = 6)
           => ~verifyOTP(otp, verifs[r].code, now).ok

\* C26: one generated OTP yields at most one successful login: of the
\* verify-otp requests made for it, at most one is answered 200.
C26_OneLoginPerOtp ==
    Cardinality({r \in Verifies : verifs[r].response = 200}) <= 1

\* What the code guarantees instead: a successful verification clears the
\* stored OTP with its save, and every request that reads the user after that
\* fails.
ClearedOtpVerifiesNothing ==
    /\ \A r \in Verifies : verifs[r].response = 200 => otp.code = None
    /\ otp.code = None
           => \A r \in Verifies :
                  verifs[r].pc = "received" => ~verifyOTP(otp, verifs[r].code, now).ok

\* a request with the issued code was answered 401 after a login with it
ReplayRejectedWitness ==
    \E r, q \in Verifies :
        /\ r < q
        /\ verifs[r].response = 200
        /\ verifs[q].response = 401
        /\ verifs[q].code = IssuedCode
        /\ verifs[q].at <= OtpLifetime
        /\ verifs[q].failedBefore = 0

SpecInvest == InitInvest /\ [][NextInvest]_vars

(***************************************************************************)
(* routes/startups.js POST /:id/like and POST /:id/bookmark with           *)
(* models/Startup.js toggleLike and toggleBookmark.  A request is served   *)
(* from its findById to the end of its save() before the next one begins.  *)
(***************************************************************************)

\* Array.prototype.indexOf: the first place of x in s, 0 for -1
IndexOf(s, x) ==
    IF \E i \in DOMAIN s : s[i] = x
    THEN CHOOSE i \in DOMAIN s : s[i] = x /\ \A j \in 1..(i - 1) : s[j] # x
    ELSE 0

\* splice(index, 1)
RemoveAt(s, index) == SubSeq(s, 1, index - 1) \o SubSeq(s, index + 1, Len(s))

\* toggleLike that does not look for the user in likedBy
toggleLikeAlwaysPush(doc, userId) ==
    preSave([doc EXCEPT !.likedBy = Append(@, userId), !.engagement.likes = @ + 1])

toggleLike(doc, userId) ==
    LET index == IndexOf(doc.likedBy, userId)
    IN  IF index > 0
        THEN preSave([doc EXCEPT !.likedBy = RemoveAt(@, index),
                                 !.engagement.likes = @ - 1])
        ELSE preSave([doc EXCEPT !.likedBy = Append(@, userId),
                                 !.engagement.likes = @ + 1])

toggleBookmark(doc, userId) ==
    LET index == IndexOf(doc.bookmarkedBy, userId)
    IN  IF index > 0
        THEN preSave([doc EXCEPT !.bookmarkedBy = RemoveAt(@, index),
                                 !.engagement.bookmarks = @ - 1])
        ELSE preSave([doc EXCEPT !.bookmarkedBy = Append(@, userId),
                                 !.engagement.bookmarks = @ + 1])

\* the headers of the clients: no token, or the token of a user
ClientHeaders == {None} \cup {Bearer(u) : u \in DOMAIN StoredAccounts \cup {"ghost"}}

\* the request after a route that lists auth only has served it
Served(header, message) ==
    LET a == auth(header)
    IN  IF a.next
        THEN [IdleHttp EXCEPT !.chain = <<Middleware("auth", {})>>, !.header = header,
                              !.at = 2, !.response = 200, !.message = message,
                              !.by = "handler", !.user = a.user,
                              !.userProfile = a.userProfile, !.handlerRan = TRUE]
        ELSE [IdleHttp EXCEPT !.chain = <<Middleware("auth", {})>>, !.header = header,
                              !.response = a.response, !.message = a.message,
                              !.by = "auth"]

InitLike ==
    /\ dbStartup = StoredStartup
    /\ http = IdleHttp
    /\ dbUsers = StoredUsers
    /\ reqs = NoRequests
    /\ otp = NoOtp
    /\ verifs = NoVerifs
    /\ failures = 0
    /\ startup = None
    /\ investor = None
    /\ out = Idle
    /\ now = 0
    /\ seen = {}
    /\ candidates = <<>>
    /\ users = <<>>
    /\ recs = IdleRecs
    /\ state = initialState
    /\ storage = EmptyStorage
    /\ tasks = IdleTasks
    /\ documents = <<>>
    /\ forUserType = "investor"
    /\ complete = NotCalled

PostLike ==
    \E header \in ClientHeaders :
        /\ http' = Served(header, "Like status updated")
        /\ dbStartup' = IF http'.handlerRan
                        THEN toggleLike(dbStartup, Val(Val(http'.user).userId))
                        ELSE dbStartup
        /\ UNCHANGED <<dbUsers, reqs, otp, verifs, failures, scoreVars, rankVars, clientVars, docVars>>

PostBookmark ==
    \E header \in ClientHeaders :
        /\ http' = Served(header, "Bookmark status updated")
        /\ dbStartup' = IF http'.handlerRan
                        THEN toggleBookmark(dbStartup, Val(Val(http'.user).userId))
                        ELSE dbStartup
        /\ UNCHANGED <<dbUsers, reqs, otp, verifs, failures, scoreVars, rankVars, clientVars, docVars>>

NextLike ==
    \/ PostLike
    \/ PostBookmark

SpecLike == InitLike /\ [][NextLike]_vars

\* C25: after any sequence of like toggles on a startup that starts with no
\* likes and an empty likedBy, each toggle completing before the next begins,
\* engagement.likes is the number of entries of likedBy, no user is in
\* likedBy twice, and engagement.likes is not negative.
C25_LikesMatchLikedBy ==
    /\ dbStartup.engagement.likes = Len(dbStartup.likedBy)
    /\ \A i, j \in DOMAIN dbStartup.likedBy :
           i # j => dbStartup.likedBy[i] # dbStartup.likedBy[j]
    /\ dbStartup.engagement.likes >= 0

\* the last request was an unlike by a user who had liked before two others
C25_Witness ==
    /\ http.message = "Like status updated"
    /\ http.handlerRan
    /\ \A i \in DOMAIN dbStartup.likedBy :
           dbStartup.likedBy[i] # Val(Val(http.user).userId)
    /\ dbStartup.engagement.likes = 2
    /\ Len(dbStartup.likedBy) = 2

(***************************************************************************)
(* The mobile AuthProvider (src/contexts/AuthContext.js): the reducer, the *)
(* AsyncStorage entries and the async functions, one action per await.     *)
(* AppNavigation renders no screen while isLoading, the Auth screen while  *)
(* user is null and the main screens otherwise, so login starts only with  *)
(* user null and logout and updateProfile only with a user.                *)
(***************************************************************************)
SessionTokens == {"t1", "t2"}
UserValues ==
    {[id |-> "u1", firstName |-> "Ann"], [id |-> "u1", firstName |-> "Anna"]}

\* JSON.stringify of a user object, and JSON.parse of a stored string
\* (None when JSON.parse throws)
JSONstringify(u) == <<"id", u.id, "firstName", u.firstName>>
JSONparse(s) ==
    IF Len(s) = 4 /\ s[1] = "id" /\ s[3] = "firstName"
    THEN Some([id |-> s[2], firstName |-> s[4]])
    ELSE None
CorruptUserData == <<"id">>

\* { ...state.user, ...action.payload }
Spread(user, payload) ==
    IF user = None THEN payload
    ELSE [f \in DOMAIN payload \cup DOMAIN Val(user) |->
              IF f \in DOMAIN payload THEN payload[f] ELSE Val(user)[f]]

authReducer(s, action) ==
    CASE action.type = "SET_LOADING" -> [s EXCEPT !.isLoading = action.payload]
      [] action.type = "LOGIN_SUCCESS" ->
             [s EXCEPT !.user = Some(action.payload.user),
                       !.token = Some(action.payload.token),
                       !.isLoading = FALSE, !.error = None]
      [] action.type = "LOGOUT" ->
             [s EXCEPT !.user = None, !.token = None,
                       !.isLoading = FALSE, !.error = None]
      [] action.type = "SET_ERROR" ->
             [s EXCEPT !.error = Some(action.payload), !.isLoading = FALSE]
      [] action.type = "CLEAR_ERROR" -> [s EXCEPT !.error = None]
      [] action.type = "UPDATE_USER" ->
             [s EXCEPT !.user = Some(Spread(s.user, action.payload))]
      [] OTHER -> s

dispatch(action) == state' = authReducer(state, action)

\* what AsyncStorage can hold when the app starts: nothing, what storeAuth
\* wrote, what storeAuth wrote before its second setItem failed, and an entry
\* that is not JSON
StoredAuthVariants ==
    {EmptyStorage,
     [token |-> Some("t1"), user |-> Some(JSONstringify([id |-> "u1", firstName |-> "Ann"]))],
     [token |-> Some("t1"), user |-> None],
     [token |-> Some("t1"), user |-> Some(CorruptUserData)]}

InitAuthContext ==
    /\ state = initialState
    /\ storage \in StoredAuthVariants
    /\ tasks = [IdleTasks EXCEPT !.loadStoredAuth.pc = "getToken"]
    /\ documents = <<>>
    /\ forUserType = "investor"
    /\ complete = NotCalled
    /\ dbStartup = StoredStartup
    /\ http = IdleHttp
    /\ dbUsers = StoredUsers
    /\ reqs = NoRequests
    /\ otp = NoOtp
    /\ verifs = NoVerifs
    /\ failures = 0
    /\ startup = None
    /\ investor = None
    /\ out = Idle
    /\ now = 0
    /\ seen = {}
    /\ candidates = <<>>
    /\ users = <<>>
    /\ recs = IdleRecs

Others == UNCHANGED <<scoreVars, rankVars, investVars, authVars, docVars>>

\* loadStoredAuth: const token = await AsyncStorage.getItem('token')
LoadGetToken ==
    /\ tasks.loadStoredAuth.pc = "getToken"
    /\ \/ /\ tasks' = [tasks EXCEPT !.loadStoredAuth.pc = "getUser",
                                    !.loadStoredAuth.token = storage.token]
          /\ UNCHANGED state
       \/ /\ tasks' = [tasks EXCEPT !.loadStoredAuth.pc = "done",
                                    !.loadStoredAuth.path = "error"]
          /\ dispatch([type |-> "SET_LOADING", payload |-> FALSE])
    /\ UNCHANGED storage
    /\ Others

\* loadStoredAuth: const userData = await AsyncStorage.getItem('user'), the
\* test of token && userData and JSON.parse
LoadGetUser ==
    /\ tasks.loadStoredAuth.pc = "getUser"
    /\ \/ /\ tasks.loadStoredAuth.token # None
          /\ storage.user # None
          /\ JSONparse(Val(storage.user)) # None
          /\ tasks' = [tasks EXCEPT !.loadStoredAuth.pc = "getProfile",
                                    !.loadStoredAuth.user = storage.user]
          /\ UNCHANGED state
       \/ /\ tasks.loadStoredAuth.token # None
          /\ storage.user # None
          /\ JSONparse(Val(storage.user)) = None
          /\ tasks' = [tasks EXCEPT !.loadStoredAuth.pc = "done",
                                    !.loadStoredAuth.path = "error"]
          /\ dispatch([type |-> "SET_LOADING", payload |-> FALSE])
       \/ /\ tasks.loadStoredAuth.token = None \/ storage.user = None
          /\ tasks' = [tasks EXCEPT !.loadStoredAuth.pc = "done",
                                    !.loadStoredAuth.path = "nothing stored"]
          /\ dispatch([type |-> "SET_LOADING", payload |-> FALSE])
       \/ /\ tasks' = [tasks EXCEPT !.loadStoredAuth.pc = "done",
                                    !.loadStoredAuth.path = "error"]
          /\ dispatch([type |-> "SET_LOADING", payload |-> FALSE])
    /\ UNCHANGED storage
    /\ Others

\* authAPI.getProfile(token) resolves: LOGIN_SUCCESS with response.data
LoadProfileResolves ==
    /\ tasks.loadStoredAuth.pc = "getProfile"
    /\ \E u \in UserValues :
           dispatch([type |-> "LOGIN_SUCCESS",
                     payload |-> [user |-> u, token |-> Val(tasks.loadStoredAuth.token)]])
    /\ tasks' = [tasks EXCEPT !.loadStoredAuth.pc = "done",
                              !.loadStoredAuth.path = "accepted"]
    /\ UNCHANGED storage
    /\ Others

\* the catch of the profile request without clearStoredAuth
LoadProfileRejectsKeepsStored ==
    /\ tasks.loadStoredAuth.pc = "getProfile"
    /\ tasks' = [tasks EXCEPT !.loadStoredAuth.pc = "done",
                              !.loadStoredAuth.path = "rejected"]
    /\ dispatch([type |-> "SET_LOADING", payload |-> FALSE])
    /\ UNCHANGED storage
    /\ Others

\* authAPI.getProfile(token) rejects: clearStoredAuth comes next
LoadProfileRejects ==
    /\ tasks.loadStoredAuth.pc = "getProfile"
    /\ tasks' = [tasks EXCEPT !.loadStoredAuth.pc = "removeToken",
                              !.loadStoredAuth.path = "rejected"]
    /\ UNCHANGED <<state, storage>>
    /\ Others

\* clearStoredAuth, first await: removeItem('token'); when it throws the catch
\* of clearStoredAuth logs the error and removeItem('user') is skipped
LoadRemoveToken ==
    /\ tasks.loadStoredAuth.pc = "removeToken"
    /\ \/ /\ storage' = [storage EXCEPT !.token = None]
          /\ tasks' = [tasks EXCEPT !.loadStoredAuth.pc = "removeUser"]
          /\ UNCHANGED state
       \/ /\ UNCHANGED storage
          /\ tasks' = [tasks EXCEPT !.loadStoredAuth.pc = "done",
                                    !.loadStoredAuth.path = "remove failed"]
          /\ dispatch([type |-> "SET_LOADING", payload |-> FALSE])
    /\ Others

\* clearStoredAuth, second await: removeItem('user'), then SET_LOADING false
LoadRemoveUser ==
    /\ tasks.loadStoredAuth.pc = "removeUser"
    /\ \/ /\ storage' = [storage EXCEPT !.user = None]
          /\ tasks' = [tasks EXCEPT !.loadStoredAuth.pc = "done"]
       \/ /\ UNCHANGED storage
          /\ tasks' = [tasks EXCEPT !.loadStoredAuth.pc = "done",
                                    !.loadStoredAuth.path = "remove failed"]
    /\ dispatch([type |-> "SET_LOADING", payload |-> FALSE])
    /\ Others

\* login: SET_LOADING true and CLEAR_ERROR, then the request is sent
LoginStart ==
    /\ ~state.isLoading
    /\ state.user = None
    /\ tasks.login.pc = "idle"
    /\ tasks.loadStoredAuth.pc = "done"
    /\ state' = authReducer(authReducer(state, [type |-> "SET_LOADING", payload |-> TRUE]),
                            [type |-> "CLEAR_ERROR"])
    /\ tasks' = [tasks EXCEPT !.login.pc = "request"]
    /\ UNCHANGED storage
    /\ Others

\* authAPI.login resolves with {user, token}; storeAuth comes next
LoginResolves ==
    /\ tasks.login.pc = "request"
    /\ \E u \in UserValues, tk \in SessionTokens :
           tasks' = [tasks EXCEPT !.login.pc = "setToken",
                                  !.login.token = Some(tk), !.login.user = Some(u)]
    /\ UNCHANGED <<state, storage>>
    /\ Others

\* authAPI.login rejects: SET_ERROR
LoginRejects ==
    /\ tasks.login.pc = "request"
    /\ dispatch([type |-> "SET_ERROR", payload |-> "Login failed"])
    /\ tasks' = [tasks EXCEPT !.login = IdleTask]
    /\ UNCHANGED storage
    /\ Others

LoginSuccess ==
    [type |-> "LOGIN_SUCCESS",
     payload |-> [user |-> Val(tasks.login.user), token |-> Val(tasks.login.token)]]

\* storeAuth, first await: setItem('token'); when it throws the catch of
\* storeAuth logs the error, setItem('user') is skipped and login goes on
LoginStoreToken ==
    /\ tasks.login.pc = "setToken"
    /\ \/ /\ storage' = [storage EXCEPT !.token = tasks.login.token]
          /\ tasks' = [tasks EXCEPT !.login.pc = "setUser"]
          /\ UNCHANGED state
       \/ /\ UNCHANGED storage
          /\ tasks' = [tasks EXCEPT !.login = IdleTask]
          /\ dispatch(LoginSuccess)
    /\ Others

\* storeAuth, second await: setItem('user'), then LOGIN_SUCCESS
LoginStoreUser ==
    /\ tasks.login.pc = "setUser"
    /\ \/ storage' = [storage EXCEPT !.user = Some(JSONstringify(Val(tasks.login.user)))]
       \/ UNCHANGED storage
    /\ tasks' = [tasks EXCEPT !.login = IdleTask]
    /\ dispatch(LoginSuccess)
    /\ Others

\* logout: if (state.token) await authAPI.logout(state.token)
LogoutStart ==
    /\ ~state.isLoading
    /\ state.user # None
    /\ tasks.logout.pc = "idle"
    /\ tasks' = [tasks EXCEPT !.logout.pc = IF state.token # None THEN "request"
                                           ELSE "removeToken",
                              !.logout.token = state.token,
                              !.logout.path = "none"]
    /\ UNCHANGED <<state, storage>>
    /\ Others

\* authAPI.logout resolves, or rejects and the error is logged: finally
LogoutSettles ==
    /\ tasks.logout.pc = "request"
    /\ tasks' = [tasks EXCEPT !.logout.pc = "removeToken"]
    /\ UNCHANGED <<state, storage>>
    /\ Others

\* finally: clearStoredAuth, first await; LOGOUT follows at once when
\* removeItem('token') throws
LogoutRemoveToken ==
    /\ tasks.logout.pc = "removeToken"
    /\ \/ /\ storage' = [storage EXCEPT !.token = None]
          /\ tasks' = [tasks EXCEPT !.logout.pc = "removeUser"]
          /\ UNCHANGED state
       \/ /\ UNCHANGED storage
          /\ tasks' = [tasks EXCEPT !.logout.pc = "idle", !.logout.path = "completed"]
          /\ dispatch([type |-> "LOGOUT"])
    /\ Others

\* finally: clearStoredAuth, second await, then LOGOUT
LogoutRemoveUser ==
    /\ tasks.logout.pc = "removeUser"
    /\ \/ storage' = [storage EXCEPT !.user = None]
       \/ UNCHANGED storage
    /\ tasks' = [tasks EXCEPT !.logout.pc = "idle", !.logout.path = "completed"]
    /\ dispatch([type |-> "LOGOUT"])
    /\ Others

\* updateProfile: authAPI.updateProfile(profileData, state.token) is sent
UpdateStart ==
    /\ ~state.isLoading
    /\ state.user # None
    /\ tasks.updateProfile.pc = "idle"
    /\ tasks' = [tasks EXCEPT !.updateProfile.pc = "request",
                              !.updateProfile.token = state.token]
    /\ UNCHANGED <<state, storage>>
    /\ Others

\* the server answers with the updated user; a request sent without a token
\* is not answered this way
UpdateResolves ==
    /\ tasks.updateProfile.pc = "request"
    /\ tasks.updateProfile.token # None
    /\ \E u \in UserValues :
           tasks' = [tasks EXCEPT !.updateProfile.pc = "setItem",
                                  !.updateProfile.user = Some(u)]
    /\ UNCHANGED <<state, storage>>
    /\ Others

UpdateRejects ==
    /\ tasks.updateProfile.pc = "request"
    /\ tasks' = [tasks EXCEPT !.updateProfile = IdleTask]
    /\ UNCHANGED <<state, storage>>
    /\ Others

\* await AsyncStorage.setItem('user', ...), then UPDATE_USER; when setItem
\* throws, the catch of updateProfile returns the failure
UpdateStoreUser ==
    /\ tasks.updateProfile.pc = "setItem"
    /\ \/ /\ storage' = [storage EXCEPT
                            !.user = Some(JSONstringify(Val(tasks.updateProfile.user)))]
          /\ dispatch([type |-> "UPDATE_USER", payload |-> Val(tasks.updateProfile.user)])
       \/ UNCHANGED <<storage, state>>
    /\ tasks' = [tasks EXCEPT !.updateProfile = IdleTask]
    /\ Others

LoadStep ==
    \/ LoadGetToken
    \/ LoadGetUser
    \/ LoadProfileResolves
    \/ LoadProfileRejects
    \/ LoadRemoveToken
    \/ LoadRemoveUser

NextAuthContext ==
    \/ LoadGetToken
    \/ LoadGetUser
    \/ LoadProfileResolves
    \/ LoadProfileRejects
    \/ LoadRemoveToken
    \/ LoadRemoveUser
    \/ LoginStart
    \/ LoginResolves
    \/ LoginRejects
    \/ LoginStoreToken
    \/ LoginStoreUser
    \/ LogoutStart
    \/ LogoutSettles
    \/ LogoutRemoveToken
    \/ LogoutRemoveUser
    \/ UpdateStart
    \/ UpdateResolves
    \/ UpdateRejects
    \/ UpdateStoreUser

SpecAuthContext == InitAuthContext /\ [][NextAuthContext]_vars

\* C27: in every reachable state of the AuthContext, user is non-null only
\* if token is non-null, also when logout completes while an updateProfile
\* request is in flight; and when a logout has completed, the stored 'user'
\* and 'token' entries are both absent.
C27_UserOnlyWithToken ==
    /\ state.user # None => state.token # None
    /\ tasks.logout.path = "completed" /\ tasks.login.pc = "idle" /\ state.user = None
           => storage = EmptyStorage

\* What the code guarantees instead: only the UPDATE_USER of an updateProfile
\* whose response arrives with no user in the state gives a user without a
\* token.
UserOnlyWithTokenButLateUpdate ==
    [][(/\ state.user # None => state.token # None
        /\ ~(tasks.updateProfile.pc = "setItem" /\ state.user = None))
           => (state'.user # None => state'.token # None)]_vars

\* The event loop runs every continuation of loadStoredAuth, and the profile
\* request is assumed to resolve or reject.
SpecAuthContextFair ==
    InitAuthContext /\ [][NextAuthContext]_vars /\ WF_vars(LoadStep)

\* loadStoredAuth ends after the profile request was rejected
LoadRejectedCompletes ==
    /\ tasks.loadStoredAuth.pc # "done"
    /\ tasks'.loadStoredAuth.pc = "done"
    /\ tasks'.loadStoredAuth.path \in {"rejected", "remove failed"}

LoadOtherPathsWitness ==
    /\ tasks.loadStoredAuth.pc = "done"
    /\ tasks.loadStoredAuth.path \in {"accepted", "error", "nothing stored"}
    /\ ~state.isLoading

(***************************************************************************)
(* DocumentService: the completeness of the KYC documents of a user.       *)
(***************************************************************************)
MaxDocuments == 3

\* the document types tried and the states of a document
DocumentTypes ==
    {"business_registration", "pitch_deck", "proof_of_funds", "intent_letter",
     "passport", "driving_license"}
DocumentStatuses == {"pending", "approved", "rejected"}
UserTypes == {"entrepreneur", "investor", "both", "admin"}

\* validDocuments[userType]?.includes(documentType) || false
validateDocumentType(ut, documentType) ==
    CASE ut = "entrepreneur" ->
             documentType \in {"business_registration", "pitch_deck", "passport",
                               "driving_license", "national_id"}
      [] ut = "investor" ->
             documentType \in {"proof_of_funds", "intent_letter", "passport",
                               "driving_license", "national_id"}
      [] ut = "both" ->
             documentType \in {"business_registration", "pitch_deck", "proof_of_funds",
                               "intent_letter", "passport", "driving_license",
                               "national_id"}
      [] OTHER -> FALSE

\* the documents a user of the type can hold: processUploadedDocuments
\* refuses a type that is not valid for the user type
UploadableDocuments(ut) ==
    [type : {d \in DocumentTypes : validateDocumentType(ut, d)},
     status : DocumentStatuses]

RequiredDoc(type, required) == [type |-> type, required |-> required]

getRequiredDocuments(ut) ==
    CASE ut = "entrepreneur" ->
             <<RequiredDoc("business_registration", TRUE),
               RequiredDoc("pitch_deck", TRUE),
               RequiredDoc("passport", TRUE)>>
      [] ut = "investor" ->
             <<RequiredDoc("proof_of_funds", TRUE),
               RequiredDoc("intent_letter", TRUE),
               RequiredDoc("passport", TRUE)>>
      [] ut = "both" ->
             <<RequiredDoc("business_registration", FALSE),
               RequiredDoc("pitch_deck", FALSE),
               RequiredDoc("proof_of_funds", TRUE),
               RequiredDoc("intent_letter", TRUE),
               RequiredDoc("passport", TRUE)>>
      [] OTHER -> <<>>

\* how many documents of the list have the status
CountStatus(docs, status) ==
    Cardinality({i \in 1..Len(docs) : docs[i].status = status})

getDocumentStatusSummary(docs, ut) ==
    LET requiredDocs == getRequiredDocuments(ut)
    IN  [total |-> Len(requiredDocs),
         uploaded |-> Len(docs),
         pending |-> CountStatus(docs, "pending"),
         approved |-> CountStatus(docs, "approved"),
         rejected |-> CountStatus(docs, "rejected"),
         missing |-> SelectSeq(requiredDocs,
                         LAMBDA r : r.required
                                    /\ \A i \in 1..Len(docs) : docs[i].type # r.type)]

isDocumentationComplete(docs, ut) ==
    LET summary == getDocumentStatusSummary(docs, ut)
        requiredDocs == getRequiredDocuments(ut)
        requiredCount == Len(SelectSeq(requiredDocs, LAMBDA r : r.required))
    IN  summary.approved >= requiredCount

InitDocuments ==
    /\ forUserType \in UserTypes
    /\ documents \in UNION {[1..n -> UploadableDocuments(forUserType)] :
                               n \in 0..MaxDocuments}
    /\ complete = NotCalled
    /\ state = initialState
    /\ storage = EmptyStorage
    /\ tasks = IdleTasks
    /\ dbStartup = StoredStartup
    /\ http = IdleHttp
    /\ dbUsers = StoredUsers
    /\ reqs = NoRequests
    /\ otp = NoOtp
    /\ verifs = NoVerifs
    /\ failures = 0
    /\ startup = None
    /\ investor = None
    /\ out = Idle
    /\ now = 0
    /\ seen = {}
    /\ candidates = <<>>
    /\ users = <<>>
    /\ recs = IdleRecs

IsDocumentationComplete ==
    /\ ~complete.called
    /\ complete' = [called |-> TRUE,
                    value |-> isDocumentationComplete(documents, forUserType)]
    /\ UNCHANGED <<documents, forUserType>>
    /\ UNCHANGED <<scoreVars, rankVars, investVars, authVars, clientVars>>

NextDocuments == IsDocumentationComplete

SpecDocuments == InitDocuments /\ [][NextDocuments]_vars

\* the required type has an approved document in the list
HasApproved(type) ==
    \E i \in 1..Len(documents) :
        documents[i].type = type /\ documents[i].status = "approved"

RequiredTypes ==
    LET req == getRequiredDocuments(forUserType)
    IN  {req[i].type : i \in {k \in 1..Len(req) : req[k].required}}

\* C28: isDocumentationComplete(documents, userType) returns true only if
\* every document type that getRequiredDocuments marks required for the user
\* type has a document of that type with status approved in documents.
C28_CompleteOnlyWithRequiredApproved ==
    complete.called /\ complete.value => \A type \in RequiredTypes : HasApproved(type)

\* What the code guarantees instead: the answer is true exactly when the
\* list holds at least as many approved documents, of any type, as there are
\* required types; with at most one document per type, all of required types,
\* that is the stated condition.
CompleteCountsApproved ==
    complete.called
        => /\ complete.value
                  <=> CountStatus(documents, "approved") >= Cardinality(RequiredTypes)
           /\ (/\ \A i, j \in 1..Len(documents) :
                      documents[i].type = documents[j].type => i = j
               /\ \A i \in 1..Len(documents) : documents[i].type \in RequiredTypes)
                  => (complete.value <=> \A type \in RequiredTypes : HasApproved(type))

\* an investor whose three required documents are approved is complete
CompleteInvestorWitness ==
    /\ complete.called
    /\ complete.value
    /\ forUserType = "investor"
    /\ \A type \in RequiredTypes : HasApproved(type)

(***************************************************************************)
(* PUT /startups/:id (routes/startups.js): auth, requireRole, the          *)
(* validators, then the handler.  A field the body does not send is None;  *)
(* a funding object in the body names every field.                         *)
(***************************************************************************)
StoredStartupId == "s1"
StartupIds == {StoredStartupId, "s9"}

FundingsSent ==
    {[targetAmount |-> ta, currentAmount |-> ca, minimumInvestment |-> 100,
      maximumInvestment |-> None, investorCount |-> n] :
        ta \in {1000, 2000}, ca \in {0, 1000}, n \in {0, 3}}

\* request bodies: fields the route copies (name, funding) and fields it does
\* not list (status, founder, likedBy), sent together or not at all
UpdateBodies ==
    {[name |-> n, funding |-> f,
      status |-> IF unlisted THEN Some("funded") ELSE None,
      founder |-> IF unlisted THEN Some("u2") ELSE None,
      likedBy |-> IF unlisted THEN Some(<<"u2">>) ELSE None] :
        n \in {None, Some("Acme Labs"), Some("A")},
        f \in {None} \cup {Some(x) : x \in FundingsSent},
        unlisted \in BOOLEAN}

\* the startup before the requests: new, or liked and invested in
StartupsStored ==
    {StoredStartup,
     [StoredStartup EXCEPT
         !.investments = <<[investor |-> "u1", amount |-> 400]>>,
         !.funding.currentAmount = 400, !.funding.investorCount = 1,
         !.likedBy = <<"u1">>, !.engagement.likes = 1, !.engagement.views = 5]}

\* body('name').optional().trim().isLength({min: 2, max: 100})
ValidationErrors(body) == body.name # None /\ Val(body.name) = "A"

\* allowedUpdates.forEach(field => ...) with the names of a field list
ApplyUpdates(doc, body, fields) ==
    [f \in DOMAIN doc |->
        IF f \in fields /\ f \in DOMAIN body /\ body[f] # None
        THEN Val(body[f]) ELSE doc[f]]

allowedUpdates ==
    {"name", "tagline", "description", "logo", "sector", "subSector",
     "businessModel", "stage", "location", "pitch", "funding", "metrics", "links",
     "tags"}

\* the request after auth and requireRole(['entrepreneur'])
Admitted(header) ==
    LET a == auth(header)
        chain == <<Middleware("auth", {}), Middleware("requireRole", {"entrepreneur"})>>
    IN  IF ~a.next
        THEN [IdleHttp EXCEPT !.chain = chain, !.header = header,
                              !.response = a.response, !.message = a.message,
                              !.by = "auth"]
        ELSE LET r == requireRole({"entrepreneur"}, a.user, a.userProfile)
             IN  IF ~r.next
                 THEN [IdleHttp EXCEPT !.chain = chain, !.header = header, !.at = 2,
                                       !.response = r.response, !.message = r.message,
                                       !.by = "requireRole", !.user = a.user,
                                       !.userProfile = a.userProfile]
                 ELSE [IdleHttp EXCEPT !.chain = chain, !.header = header, !.at = 3,
                                       !.by = "handler", !.user = r.user,
                                       !.userProfile = r.userProfile,
                                       !.handlerRan = TRUE]

\* the handler: what it answers
UpdateAnswer(req, id, body) ==
    IF ~req.handlerRan THEN req
    ELSE IF ValidationErrors(body)
         THEN [req EXCEPT !.response = 400, !.message = "Validation errors"]
    ELSE IF id # StoredStartupId
         THEN [req EXCEPT !.response = 404, !.message = "Startup not found"]
    ELSE IF dbStartup.founder # Val(Val(req.user).userId)
         THEN [req EXCEPT !.response = 403,
                          !.message = "Access denied. Only the founder can update this startup."]
    ELSE [req EXCEPT !.response = 200, !.message = "Startup updated successfully"]

InitUpdate ==
    /\ dbStartup \in StartupsStored
    /\ http = IdleHttp
    /\ dbUsers = StoredUsers
    /\ reqs = NoRequests
    /\ otp = NoOtp
    /\ verifs = NoVerifs
    /\ failures = 0
    /\ startup = None
    /\ investor = None
    /\ out = Idle
    /\ now = 0
    /\ seen = {}
    /\ candidates = <<>>
    /\ users = <<>>
    /\ recs = IdleRecs
    /\ state = initialState
    /\ storage = EmptyStorage
    /\ tasks = IdleTasks
    /\ documents = <<>>
    /\ forUserType = "investor"
    /\ complete = NotCalled

\* router.put('/:id', ...): the fields of the body that allowedUpdates lists
\* are assigned and the startup is saved
PutStartup ==
    \E header \in ClientHeaders, id \in StartupIds, body \in UpdateBodies :
        /\ http' = UpdateAnswer(Admitted(header), id, body)
        /\ dbStartup' = IF http'.response = 200
                        THEN preSave(ApplyUpdates(dbStartup, body, allowedUpdates))
                        ELSE dbStartup
        /\ UNCHANGED <<dbUsers, reqs, otp, verifs, failures, scoreVars, rankVars, clientVars, docVars>>

NextUpdate == PutStartup

SpecUpdate == InitUpdate /\ [][NextUpdate]_vars

PutAnswered == http'.chain # <<>> /\ Len(http'.chain) = 2

\* C29: PUT /startups/:id changes the startup only when the requester is its
\* founder (otherwise the answer is 403), and for every body it leaves
\* status, moderationStatus, founder, the investments, likedBy, bookmarkedBy,
\* the engagement counters, funding.currentAmount and funding.investorCount
\* as they were.
C29_UpdateFrame ==
    [][PutAnswered
          => /\ dbStartup' # dbStartup
                    => http'.user # None /\ Val(Val(http'.user).userId) = dbStartup.founder
             /\ dbStartup'.status = dbStartup.status
             /\ dbStartup'.moderationStatus = dbStartup.moderationStatus
             /\ dbStartup'.founder = dbStartup.founder
             /\ dbStartup'.investments = dbStartup.investments
             /\ dbStartup'.likedBy = dbStartup.likedBy
             /\ dbStartup'.bookmarkedBy = dbStartup.bookmarkedBy
             /\ dbStartup'.engagement = dbStartup.engagement
             /\ dbStartup'.funding.currentAmount = dbStartup.funding.currentAmount
             /\ dbStartup'.funding.investorCount = dbStartup.funding.investorCount]_vars

\* What the code guarantees instead: only the founder's request changes the
\* startup, and it leaves moderationStatus, founder, the investments, likedBy,
\* bookmarkedBy and the engagement counters as they were; status changes only
\* from active to funded, when the saved funding has reached its target.
UpdateFrameButFunding ==
    [][PutAnswered
          => /\ dbStartup' # dbStartup
                    => /\ http'.response = 200
                       /\ Val(Val(http'.user).userId) = dbStartup.founder
             /\ dbStartup'.moderationStatus = dbStartup.moderationStatus
             /\ dbStartup'.founder = dbStartup.founder
             /\ dbStartup'.investments = dbStartup.investments
             /\ dbStartup'.likedBy = dbStartup.likedBy
             /\ dbStartup'.bookmarkedBy = dbStartup.bookmarkedBy
             /\ dbStartup'.engagement = dbStartup.engagement
             /\ dbStartup'.status # dbStartup.status
                    => /\ dbStartup.status = "active"
                       /\ dbStartup'.status = "funded"
                       /\ dbStartup'.funding.currentAmount
                              >= dbStartup'.funding.targetAmount]_vars

\* a user who passes requireRole and is not the founder was answered 403 by
\* the handler, after the founder had renamed the liked startup
NonFounderRefusedWitness ==
    /\ Len(http.chain) = 2
    /\ http.response = 403
    /\ http.by = "handler"
    /\ dbStartup.engagement.likes = 1
    /\ dbStartup.name = "Acme Labs"

====
